---- MODULE Spec2Model ----
(***************************************************************************)
(* Verification model of radstream: the broadcast picker, the stream-key   *)
(* resolver and the start/end stream mutations, as state machines over     *)
(* the provider (YouTube Data API) state they read and write.              *)
(***************************************************************************)
EXTENDS Integers, Sequences, FiniteSets, TLC

\* ---------------------------------------------------------------------
\* Bounds
\* ---------------------------------------------------------------------
MaxItems == 2
MaxTime == 2
MaxStreams == 2
MaxCalls == 3
MaxPolls == 3

\* ---------------------------------------------------------------------
\* JavaScript values used by the picker: an optional ISO date string.
\* def = FALSE is undefined; str = <<>> is the empty string; str = <<s>>
\* is the ISO string of second s.
\* ---------------------------------------------------------------------
Undefined == [def |-> FALSE, str |-> <<>>]
Str(s) == [def |-> TRUE, str |-> s]
EmptyString == Str(<<>>)
IsoString(t) == Str(<<t>>)
MsPerSecond == 1000

Truthy(v) == v.def /\ v.str # <<>>
\* a || b
OrElse(a, b) == IF Truthy(a) THEN a ELSE b
\* a ?? b
Nullish(a, b) == IF a.def THEN a ELSE b
\* Date.parse of an ISO string: milliseconds since the epoch
DateParse(v) == v.str[1] * MsPerSecond
NegInfinity == -1

Times == 1..MaxTime
OptTime == {Undefined} \cup {IsoString(t) : t \in Times}

NullBroadcast ==
  [id |-> 0, actualStartTime |-> Undefined, scheduledStartTime |-> Undefined,
   actualEndTime |-> Undefined, publishedAt |-> Undefined]

\* A listed broadcast: the time fields above the k-th are absent (the
\* scheduled start possibly the empty string), the k-th holds the time
\* key, the fields below it hold d.  k = 5 leaves every field without a time.
MkBroadcast(i, k, key, f, d) ==
  [id |-> i,
   actualStartTime |-> IF k = 1 THEN key ELSE Undefined,
   scheduledStartTime |-> IF k = 2 THEN key ELSE IF k > 2 THEN f ELSE d,
   actualEndTime |-> IF k = 3 THEN key ELSE IF k > 3 THEN Undefined ELSE d,
   publishedAt |-> IF k = 4 THEN key ELSE IF k > 4 THEN Undefined ELSE d]

YouTubeLiveBroadcast(i) ==
  { MkBroadcast(i, k, IsoString(t), f, d) :
      k \in 1..5, t \in Times, f \in {Undefined, EmptyString}, d \in OptTime }

\* ---------------------------------------------------------------------
\* pickMostRecentBroadcast (loop revision)
\* ---------------------------------------------------------------------
\* mutant: ranks by actualStartTime, falling back to publishedAt only
timeOfStartOrPublished(b) ==
  LET candidate == OrElse(b.actualStartTime, b.publishedAt)
  IN IF Truthy(candidate) THEN DateParse(candidate) ELSE 0

timeOf(b) ==
  LET candidate == OrElse(OrElse(OrElse(b.actualStartTime, b.scheduledStartTime),
                                 b.actualEndTime), b.publishedAt)
  IN IF Truthy(candidate) THEN DateParse(candidate) ELSE 0

RECURSIVE PickLoop(_, _, _, _)
\* mutant: a later broadcast with an equal instant replaces the newest
PickLoopLastWins(list, i, newest, newestTs) ==
  IF i > Len(list) THEN newest
  ELSE IF timeOf(list[i]) >= newestTs
       THEN PickLoop(list, i + 1, list[i], timeOf(list[i]))
       ELSE PickLoop(list, i + 1, newest, newestTs)

PickLoop(list, i, newest, newestTs) ==
  IF i > Len(list) THEN newest
  ELSE IF timeOf(list[i]) > newestTs
       THEN PickLoop(list, i + 1, list[i], timeOf(list[i]))
       ELSE PickLoop(list, i + 1, newest, newestTs)

\* mutant: the running maximum starts at 0 instead of -Infinity
pickStartingAtZero(arg) ==
  IF ~arg.def \/ Len(arg.list) = 0 THEN NullBroadcast
  ELSE PickLoop(arg.list, 1, NullBroadcast, 0)

pickMostRecentBroadcast(arg) ==
  IF ~arg.def \/ Len(arg.list) = 0 THEN NullBroadcast
  ELSE PickLoop(arg.list, 1, NullBroadcast, NegInfinity)

\* ---------------------------------------------------------------------
\* pickMostRecentBroadcast (sort revision): stable sort, newest first
\* ---------------------------------------------------------------------
sortKey(b) ==
  LET s == Nullish(b.actualStartTime, b.publishedAt)
  IN IF Truthy(s) THEN DateParse(s) ELSE 0

\* insert b after every element that does not sort after it (tb - ta <= 0)
RECURSIVE InsertStable(_, _)
InsertStable(sorted, b) ==
  IF sorted = <<>> THEN <<b>>
  ELSE IF sortKey(b) - sortKey(Head(sorted)) > 0
       THEN <<b>> \o sorted
       ELSE <<Head(sorted)>> \o InsertStable(Tail(sorted), b)

RECURSIVE SortNewestFirst(_, _)
SortNewestFirst(list, n) ==
  IF n = 0 THEN <<>>
  ELSE InsertStable(SortNewestFirst(list, n - 1), list[n])

pickMostRecentBroadcastSorted(arg) ==
  IF ~arg.def \/ Len(arg.list) = 0 THEN NullBroadcast
  ELSE LET copy == SortNewestFirst(arg.list, Len(arg.list))
       IN copy[1]

\* ---------------------------------------------------------------------
\* Live streams as listStreams returns them (YouTubeLiveStreamsList.items).
\* isReusable is "true", "false" or "absent"; the stream name and the two
\* ingestion addresses are optional strings.
\* ---------------------------------------------------------------------
StreamKeyOf(i) == Str(<<i>>)
RtmpsAddressOf(i) == Str(<<i, 2>>)
IngestionAddressOf(i) == Str(<<i, 1>>)

MkStream(i, name, reusable, rtmps, ingestion) ==
  [id |-> i, streamName |-> name, isReusable |-> reusable,
   rtmpsIngestionAddress |-> rtmps, ingestionAddress |-> ingestion]

\* Streams the provider may hold before any call: with or without a name,
\* reusable or not; the addresses vary on the named reusable ones.
YouTubeLiveStream(i) ==
  { MkStream(i, name, r, Undefined, IngestionAddressOf(i)) :
      name \in {Undefined, EmptyString}, r \in {"true", "false", "absent"} }
  \cup { MkStream(i, StreamKeyOf(i), "false", RtmpsAddressOf(i), IngestionAddressOf(i)) }
  \cup { MkStream(i, StreamKeyOf(i), r, rtmps, ingestion) :
      r \in {"true", "absent"},
      rtmps \in {Undefined, RtmpsAddressOf(i)},
      ingestion \in {Undefined, IngestionAddressOf(i)} }

RECURSIVE StreamLists(_)
StreamLists(n) ==
  IF n = 0 THEN {<<>>}
  ELSE StreamLists(n - 1) \cup
       { Append(l, st) : l \in {x \in StreamLists(n - 1) : Len(x) = n - 1},
                         st \in YouTubeLiveStream(n) }

\* the stream the provider creates for insertReusableStream's request body
CreatedStream(i) ==
  MkStream(i, StreamKeyOf(i), "true", RtmpsAddressOf(i), IngestionAddressOf(i))

\* mutant: an absent isReusable counts as not reusable
IsReusableOnlyWhenTrue(st) == st.isReusable = "true"

\* s.contentDetails?.isReusable ?? true
IsReusableOrTrue(st) == IF st.isReusable = "absent" THEN TRUE ELSE st.isReusable = "true"

\* the for loop of getYouTubeStreamKey / peekYouTubeStreamKey: the index of
\* the first listed stream with a key that is reusable, 0 when none is
RECURSIVE ScanStreams(_, _)
ScanStreams(list, i) ==
  IF i > Len(list) THEN 0
  ELSE IF Truthy(list[i].streamName) /\ IsReusableOrTrue(list[i]) THEN i
  ELSE ScanStreams(list, i + 1)

\* mutant: the plain ingestion address is preferred over the rtmps one
FoundResultIngestionFirst(st) ==
  [streamKey |-> st.streamName,
   ingestUrl |-> Nullish(st.ingestionAddress, st.rtmpsIngestionAddress)]
\* returned from inside the loop: { ingestUrl: ingest, streamKey: key }
FoundResult(st) ==
  [streamKey |-> st.streamName,
   ingestUrl |-> Nullish(st.rtmpsIngestionAddress, st.ingestionAddress)]
\* peekYouTubeStreamKey's return {}
EmptyResult == [streamKey |-> Undefined, ingestUrl |-> Undefined]
\* mutant: the stream name of the insert's answer is not read
InsertedResultWithoutKey(key) == [streamKey |-> Undefined, ingestUrl |-> Undefined]
\* getYouTubeStreamKey's return { streamKey } after the insert
InsertedResult(key) == [streamKey |-> key, ingestUrl |-> Undefined]

Callers == {1, 2}

\* ---------------------------------------------------------------------
\* State
\* ---------------------------------------------------------------------
VARIABLES
  items, newest, newestSorted,   \* pickMostRecentBroadcast: argument, results
  streams,                       \* the provider's live streams, in listing order
  enabled,                       \* the callers that invoke the stream-key resolver
  pc, kind, listed, result,      \* per caller: position, function, list.items, return value
  inserts,                       \* per caller: insert calls issued by the current invocation
  calls,                         \* invocations started so far
  keyLog,                        \* the settled invocations, in order, with their outcome
  accessToken, broadcast, livestream,  \* what the hooks hold when the mutation runs
  boundTo,                       \* the provider: the stream each broadcast is bound to
  op, opts, step,                \* the running mutation, its argument, its position
  workingBroadcastId, workingBroadcastStatus, justCreated, streamId,
  events,                        \* provider calls of the run: issued, answered ok, failed
  returned, error,               \* the value the mutation resolves with, or its error
  ytBroadcasts,                  \* the provider's broadcasts, in listing order
  upsertPc, input, picked,       \* per caller of the upsert: position, argument, picked broadcast
  listing,                       \* per caller of the upsert: the listing it received
  requests,                      \* broadcast insert and update calls, with their answers
  upsertResult, upsertError,     \* per caller: the value the upsert resolves with, or its error
  shownStatus, badge,            \* BroadcastStatus: its status prop, the label and color shown
  hookStream, hookStatus,        \* useLivestream: streams[0] of the last poll, the status returned
  routeStream, routeStatus,      \* /api/livestream/status: streams[0] of the last request, its answer
  req, routePc, response,        \* the request a route handler is serving, its position, its response
  svcCalls,                      \* provider calls issued for the request, with their answers
  currentBroadcast,              \* updateBroadcastTitleDescription: what fromID resolved to
  served,                        \* requests received so far
  tokenFile,                     \* the token file
  cookieJar, issued,             \* the browser's oauth_state cookie, the states login has issued
  cb, oauthPc, oauthResponse,    \* the callback request being served, its position, the response
  oauthCalls, oauthWrites,       \* token requests and token-file writes of that callback
  oauthRequests,                 \* login and callback requests received so far
  authPc, saved, refreshOutcome, \* ensureAccessToken: position, loaded file, outcome of the refresh
  refreshed,                     \* ensureAccessToken: the answer to the refresh grant
  polls,                         \* ensureAccessToken: the answers to its polls, in order
  authResult, authError,         \* ensureAccessToken: returned tokens, or the error thrown
  authWrites                     \* ensureAccessToken: token-file writes

pickVars == <<items, newest, newestSorted>>
keyVars == <<streams, enabled, pc, kind, listed, result, inserts, calls, keyLog>>
hookVars == <<accessToken, broadcast, livestream>>
runVars == <<op, opts, step, workingBroadcastId, workingBroadcastStatus, justCreated,
             streamId, events, returned, error>>
startVars == <<hookVars, boundTo, runVars>>
upsertVars == <<ytBroadcasts, upsertPc, input, picked, listing, requests, upsertResult, upsertError>>
coreVars == <<pickVars, keyVars, startVars>>
labelVars == <<shownStatus, badge, hookStream, hookStatus, routeStream, routeStatus>>
routeVars == <<req, routePc, response, svcCalls, currentBroadcast, served>>
oauthVars == <<cookieJar, issued, cb, oauthPc, oauthResponse, oauthCalls, oauthWrites, oauthRequests>>
authVars == <<authPc, saved, refreshOutcome, refreshed, polls, authResult, authError, authWrites>>
tokenVars == <<tokenFile, oauthVars, authVars>>
extVars == <<upsertVars, labelVars, routeVars, tokenVars>>
vars == <<coreVars, extVars>>

KeyIdle ==
  /\ pc = [p \in Callers |-> "idle"]
  /\ kind = [p \in Callers |-> "none"]
  /\ listed = [p \in Callers |-> <<>>]
  /\ result = [p \in Callers |-> EmptyResult]
  /\ inserts = [p \in Callers |-> 0]
  /\ calls = 0
  /\ keyLog = <<>>

NotCalled == [id |-> -1, actualStartTime |-> Undefined, scheduledStartTime |-> Undefined,
              actualEndTime |-> Undefined, publishedAt |-> Undefined]

\* ---------------------------------------------------------------------
\* useStartStream / useEndStream: values.  Strings; "" stands for a value
\* that is undefined (or empty: the code tests both with ! and ||).
\* ---------------------------------------------------------------------
LifeCycleStatuses ==
  {"created", "ready", "testing", "live", "complete", "revoked", "canceled"}
\* a status outside the declared union, and a missing one
FetchedStatuses == LifeCycleStatuses \cup {"liveStarting", ""}
BroadcastIds == {"b1", "b2", "b3"}
FetchedBroadcastId == "b1"
OtherBroadcastId == "b2"
CreatedBroadcastId == "b3"

\* useBroadcast() while it has no data: every field is undefined
NoBroadcast == [id |-> "", status |-> "", title |-> "", description |-> "", boundStreamId |-> ""]
\* useBroadcast() data: the first listed broadcast
FetchedBroadcasts ==
  [id : {FetchedBroadcastId}, status : FetchedStatuses, title : {"", "T"},
   description : {"", "D"}, boundStreamId : {"", "s1"}]

NoOpts == [broadcastId |-> "", streamId |-> ""]
StartStreamOptions == [broadcastId : {"", FetchedBroadcastId, OtherBroadcastId}, streamId : {"", "s3"}]
NoResult == [broadcastId |-> "", streamId |-> "", status |-> ""]

\* a || b on strings
Or(a, b) == IF a # "" THEN a ELSE b

Call(ev, o, id, a, b) == [ev |-> ev, op |-> o, id |-> id, a |-> a, b |-> b]
DefaultTitle == "New Stream"
\* mutant: the create request ignores the prior title and description
CreateRequestBlank(title, description) ==
  Call("issue", "create", "", DefaultTitle, "")
\* createBroadcast's request: title || `New Stream ...`, description || ""
CreateRequest(title, description) ==
  Call("issue", "create", "", Or(title, DefaultTitle), Or(description, ""))
BindRequest(id, sid) == Call("issue", "bind", id, sid, "")
TransitionRequest(id, target) == Call("issue", "transition", id, target, "")
Answer(ev, request) == [request EXCEPT !.ev = ev]
\* mutant: a missing status counts as transitionable
TargetableOrMissing == {"ready", "testing", "created", ""}
TargetableStatuses == {"ready", "testing", "created"}

RunIdle ==
  /\ op = "none" /\ opts = NoOpts /\ step = "idle"
  /\ workingBroadcastId = "" /\ workingBroadcastStatus = "" /\ justCreated = FALSE
  /\ streamId = "" /\ events = <<>> /\ returned = NoResult /\ error = ""

StartIdle ==
  /\ accessToken = "" /\ broadcast = NoBroadcast /\ livestream = ""
  /\ boundTo = [b \in BroadcastIds |-> ""]
  /\ RunIdle

\* ---------------------------------------------------------------------
\* upsertMostRecentActiveBroadcastTitleDescription: values
\* ---------------------------------------------------------------------
\* a broadcast as the provider lists it: the picker's time fields, the
\* lifecycle status and the title
ListedBroadcast(i, t, status, title) ==
  [id |-> i, actualStartTime |-> Undefined, scheduledStartTime |-> Undefined,
   actualEndTime |-> Undefined, publishedAt |-> IsoString(t),
   status |-> status, title |-> title]
OldTitle == Str(<<"old">>)
ProviderBroadcasts(i) ==
  { ListedBroadcast(i, t, s, OldTitle) : t \in Times, s \in LifeCycleStatuses }

RECURSIVE BroadcastLists(_)
BroadcastLists(n) ==
  IF n = 0 THEN {<<>>}
  ELSE BroadcastLists(n - 1) \cup
       { Append(l, b) : l \in {x \in BroadcastLists(n - 1) : Len(x) = n - 1},
                        b \in ProviderBroadcasts(n) }

\* the caller's { title?, description? }
UpsertInputs ==
  [title : {Undefined, EmptyString, Str(<<"T">>)},
   description : {Undefined, EmptyString, Str(<<"D">>)}]
NoInput == [title |-> Undefined, description |-> Undefined]

\* texts of the provider's non-ok responses
ProviderMessages == {"quotaExceeded", "forbidden"}
NoError == [message |-> "", text |-> ""]
NoInfo == [id |-> 0, status |-> "", title |-> Undefined]

\* now.getTime() + 5 * 60 * 1000, with now in whole seconds
ScheduleBufferMs == 5 * 60 * 1000
\* new Date(ms).toISOString()
ToISOString(ms) == IsoString(ms \div MsPerSecond)
ScheduledStartTime(now) == ToISOString(now * MsPerSecond + ScheduleBufferMs)

isActiveStatus(s) == s = "live" \/ s = "testing" \/ s = "ready" \/ s = "created"
\* (list.items ?? []).filter((b) => isActiveStatus(b.status.lifeCycleStatus))
ActiveOf(list) == SelectSeq(list, LAMBDA b : isActiveStatus(b.status))

\* mutant: the insert schedules the start at the current time
InsertRequestUnscheduled(p, in, now) ==
  [by |-> p, method |-> "POST", id |-> 0,
   title |-> IF Truthy(in.title) THEN in.title ELSE Undefined,
   description |-> IF Truthy(in.description) THEN in.description ELSE Undefined,
   scheduledStartTime |-> ToISOString(now * MsPerSecond), now |-> now, answer |-> "pending", text |-> ""]
\* insertBroadcast's request: if (title) snippetBody.title = title, the same
\* for the description; scheduledStartTime always
InsertRequest(p, in, now) ==
  [by |-> p, method |-> "POST", id |-> 0,
   title |-> IF Truthy(in.title) THEN in.title ELSE Undefined,
   description |-> IF Truthy(in.description) THEN in.description ELSE Undefined,
   scheduledStartTime |-> ScheduledStartTime(now), now |-> now, answer |-> "pending", text |-> ""]
\* updateTitleDescription's request: a field is sent when it is !== undefined
UpdateRequest(p, id, in, now) ==
  [by |-> p, method |-> "PUT", id |-> id,
   title |-> in.title, description |-> in.description,
   scheduledStartTime |-> ScheduledStartTime(now), now |-> now, answer |-> "pending", text |-> ""]

\* the broadcast the provider creates for an insert request
CreatedBroadcast(i, request) ==
  [ListedBroadcast(i, request.now, "created", request.title)
     EXCEPT !.scheduledStartTime = request.scheduledStartTime]
\* the provider applies the snippet of an update request
ApplyUpdate(b, request) ==
  [b EXCEPT !.title = Nullish(request.title, @),
            !.scheduledStartTime = request.scheduledStartTime]
\* ActiveBroadcastInfo of a broadcast
InfoOf(b) == [id |-> b.id, status |-> b.status, title |-> b.title]

UpsertIdle ==
  /\ upsertPc = [p \in Callers |-> "idle"]
  /\ input = [p \in Callers |-> NoInput]
  /\ picked = [p \in Callers |-> NullBroadcast]
  /\ listing = [p \in Callers |-> [def |-> FALSE, list |-> <<>>]]
  /\ requests = <<>>
  /\ upsertResult = [p \in Callers |-> NoInfo]
  /\ upsertError = [p \in Callers |-> NoError]

\* ---------------------------------------------------------------------
\* Status display: humanizeStatus and the stream-status normalization
\* ---------------------------------------------------------------------
\* statuses handed to BroadcastStatus: the declared ones, two the provider
\* also reports, and the empty string
ShownStatuses == LifeCycleStatuses \cup {"liveStarting", "testStarting", ""}
NeutralColor == "#6b7280"
NoBadge == [label |-> "-", color |-> "-"]

\* mutant: an unrecognized status is labelled Unknown
humanizeStatusUnknown(s) ==
  CASE s = "live" -> [label |-> "Live", color |-> "#dc2626"]
    [] s \in {"created", "ready", "testing"} -> [label |-> "Starting Soon", color |-> "#f59e0b"]
    [] s = "complete" -> [label |-> "Ended", color |-> "#16a34a"]
    [] s \in {"canceled", "revoked"} ->
         [label |-> IF s = "canceled" THEN "Canceled" ELSE "Revoked", color |-> NeutralColor]
    [] OTHER -> [label |-> "Unknown", color |-> NeutralColor]

humanizeStatus(s) ==
  CASE s = "live" -> [label |-> "Live", color |-> "#dc2626"]
    [] s \in {"created", "ready", "testing"} -> [label |-> "Starting Soon", color |-> "#f59e0b"]
    [] s = "complete" -> [label |-> "Ended", color |-> "#16a34a"]
    [] s \in {"canceled", "revoked"} ->
         [label |-> IF s = "canceled" THEN "Canceled" ELSE "Revoked", color |-> NeutralColor]
    [] OTHER -> [label |-> s, color |-> NeutralColor]

\* streams[0] of the stream listing: no stream, or a stream whose
\* status.streamStatus is a string or missing ("")
NoStream == [present |-> FALSE, streamStatus |-> ""]
LatestStreams ==
  {NoStream} \cup
  [present : {TRUE},
   streamStatus : {"active", "error", "created", "ready", "inactive", "paused", ""}]
NotPolled == "-"

\* useLivestream.queryFn: the switch, with status || "waiting for
\* connection.." as its default; undefined ("") without a stream
useLivestreamStatus(latest) ==
  IF ~latest.present THEN ""
  ELSE CASE latest.streamStatus = "active" -> "receiving data"
         [] latest.streamStatus = "error" -> "lost connection"
         [] OTHER -> Or(latest.streamStatus, "waiting for connection..")

\* LiveStream.status: latestStream?.status.streamStatus
LiveStreamStatus(latest) == IF latest.present THEN latest.streamStatus ELSE ""
\* the switch of GET /api/livestream/status
RouteLivestreamStatus(status) ==
  CASE status = "active" -> "streaming"
    [] status = "error" -> "lost connection"
    [] OTHER -> "waiting for connection.."

LabelIdle ==
  /\ shownStatus = NotPolled /\ badge = NoBadge
  /\ hookStream = NoStream /\ hookStatus = NotPolled
  /\ routeStream = NoStream /\ routeStatus = NotPolled

\* ---------------------------------------------------------------------
\* Session-backed routes and the Broadcast / LiveStream services: values
\* ---------------------------------------------------------------------
Handlers ==
  {"GET /api/broadcast/fields", "POST /api/broadcast/fields", "GET /api/broadcast/status",
   "GET /livestream/health", "GET /api/livestream/stream-key", "GET /api/livestream/status"}
\* auth.api.getAccessToken(...).accessToken: undefined ("") or a token
SessionTokens == {"", "token"}
\* the JSON body of POST /api/broadcast/fields
FieldsBodies ==
  [id : {"", "b1"}, title : {Undefined, EmptyString, Str(<<"T">>)},
   description : {Undefined, Str(<<"D">>)}]
NoBody == [id |-> "", title |-> Undefined, description |-> Undefined]
\* only the POST handler reads a body
BodiesOf(handler) == IF handler = "POST /api/broadcast/fields" THEN FieldsBodies ELSE {NoBody}
NoRequest == [handler |-> "", token |-> "", body |-> NoBody]
NoResponse == [status |-> 0, error |-> ""]

\* mutant: the route goes on without an access token
AuthorizedAlways(accessTokenResult) == TRUE
\* the guard of every route: if (!accessToken.accessToken) return 401
Authorized(accessTokenResult) == accessTokenResult # ""

\* a call to the provider issued by a service function
ServiceCall(call, method, id, title, description, scheduledStartTime) ==
  [call |-> call, method |-> method, id |-> id, title |-> title,
   description |-> description, scheduledStartTime |-> scheduledStartTime,
   answer |-> "pending", text |-> ""]
GetCall(call, id) == ServiceCall(call, "GET", id, Undefined, Undefined, Undefined)
DefaultServiceTitle == Str(<<"my livestream">>)
\* Broadcast.createBroadcast's request: title ?? "my livestream",
\* description, scheduledStartTime five minutes ahead
CreateBroadcastCall(body, now) ==
  ServiceCall("createBroadcast", "POST", "", Nullish(body.title, DefaultServiceTitle),
              body.description, ScheduledStartTime(now))
\* updateBroadcastTitleDescription's PUT: the fields that are !== undefined,
\* and scheduledStartTime when the current broadcast has one
UpdateBroadcastCall(body, scheduled, now) ==
  ServiceCall("updateBroadcast", "PUT", body.id, body.title, body.description,
              IF scheduled THEN ScheduledStartTime(now) ELSE Undefined)

\* the message of new Error(await response.json()): the string conversion
\* of the parsed error object
ObjectToString == "[object Object]"
\* mutant: a failed update throws the provider's message
UpdateErrorWithText(text) == text
\* throw new Error(await response.json())
UpdateErrorMessage(text) == ObjectToString
\* mutant: a failed create throws the provider's message
CreateErrorWithText(text) == text
\* throw new Error("create-broadcast failed")
CreateErrorMessage(text) == "create-broadcast failed"

\* let currentBroadcast: undefined, or data.items?.[0] of fromID's answer
\* with its snippet.scheduledStartTime
NoCurrentBroadcast == [def |-> FALSE, scheduledStartTime |-> Undefined]
CurrentBroadcasts ==
  { [def |-> TRUE, scheduledStartTime |-> t] : t \in {Undefined, EmptyString, IsoString(0)} }

RouteIdle ==
  /\ req = NoRequest /\ routePc = "idle" /\ svcCalls = <<>>
  /\ currentBroadcast = NoCurrentBroadcast
  /\ response = NoResponse /\ served = 0

\* ---------------------------------------------------------------------
\* The token file, /api/oauth/google/login and /api/oauth/google/callback
\* ---------------------------------------------------------------------
\* the token file: absent, or the saved TokenResponse ("" is a missing
\* refresh_token)
NoTokenFile == [exists |-> FALSE, access_token |-> "", refresh_token |-> ""]
TokenFile(access, refresh) ==
  [exists |-> TRUE, access_token |-> access, refresh_token |-> refresh]
\* the token endpoint's answer to the authorization-code grant
CodeGrantToken == TokenFile("a3", "r3")

\* crypto.randomUUID() values
StateNonces == {"u1", "u2"}
\* what a callback request may carry as state and as oauth_state cookie:
\* a nonce, a value of the client's own making, or nothing ("")
StateValues == StateNonces \cup {"x", ""}
\* the code query parameter: missing ("") or present
CodeValues == {"", "code"}
NoCallback == [n |-> 0, code |-> "", state |-> "", cookie |-> "", fromBrowser |-> FALSE]

\* mutant: only the equality with the cookie is tested
StateMatchesCookie(state, cookie) == cookie = state
\* the callback's state test: state && cookies["oauth_state"] === state
StateAccepted(state, cookie) == state # "" /\ cookie = state

OAuthIdle ==
  /\ cookieJar = "" /\ issued = {} /\ cb = NoCallback
  /\ oauthPc = "idle" /\ oauthResponse = NoResponse
  /\ oauthCalls = 0 /\ oauthWrites = 0 /\ oauthRequests = 0

\* ---------------------------------------------------------------------
\* ensureAccessToken: values
\* ---------------------------------------------------------------------
\* token files a run may start from: none, one without and one with a
\* refresh token
SavedTokenFiles == {NoTokenFile, TokenFile("a0", ""), TokenFile("a0", "r0")}
\* answers of the token endpoint to the refresh grant and to a poll
RefreshedTokens == {TokenFile("a1", ""), TokenFile("a1", "r1")}
DeviceTokens == {TokenFile("a2", ""), TokenFile("a2", "r2")}
NoTokens == [access_token |-> "", refresh_token |-> ""]

\* bodies of non-ok token responses, as words: the error code and, for
\* the last one, a description
TokenErrorBodies ==
  {<<"authorization_pending">>, <<"slow_down">>, <<"access_denied">>, <<"expired_token">>,
   <<"invalid_request", "slow_down">>}
\* postForm's error: `HTTP ${res.status} on ${url}: ${text}`
PostFormError(url, text) == <<"HTTP", "on", url>> \o text
GoogleToken == "https://oauth2.googleapis.com/token"
GoogleDeviceCode == "https://oauth2.googleapis.com/device/code"
\* msg.includes(needle)
Includes(msg, needle) == \E i \in 1..Len(msg) : msg[i] = needle
\* mutant: only authorization_pending keeps the loop polling
KeepPollingOnPendingOnly(msg) == Includes(msg, "authorization_pending")
\* the catch of the poll loop: continue on these two, rethrow otherwise
KeepPolling(msg) == Includes(msg, "authorization_pending") \/ Includes(msg, "slow_down")

AuthIdle ==
  /\ authPc = "idle" /\ saved = NoTokenFile /\ refreshOutcome = "none"
  /\ refreshed = NoTokenFile
  /\ polls = <<>> /\ authResult = NoTokens /\ authError = <<>> /\ authWrites = 0

ExtIdle ==
  /\ ytBroadcasts = <<>> /\ UpsertIdle
  /\ LabelIdle
  /\ RouteIdle
  /\ tokenFile = NoTokenFile /\ OAuthIdle /\ AuthIdle

PickIdle ==
  /\ items = [def |-> TRUE, list |-> <<>>]
  /\ newest = NotCalled
  /\ newestSorted = NotCalled

PickInit ==
  /\ items \in {[def |-> FALSE, list |-> <<>>], [def |-> TRUE, list |-> <<>>]}
  /\ newest = NotCalled
  /\ newestSorted = NotCalled
  /\ streams = <<>> /\ enabled = {} /\ KeyIdle
  /\ StartIdle
  /\ ExtIdle

\* the provider lists one more broadcast
AddBroadcast ==
  /\ items.def
  /\ Len(items.list) < MaxItems
  /\ newest = NotCalled /\ newestSorted = NotCalled
  /\ \E b \in YouTubeLiveBroadcast(Len(items.list) + 1) :
       items' = [items EXCEPT !.list = Append(@, b)]
  /\ UNCHANGED <<newest, newestSorted, keyVars, startVars, extVars>>

CallPick ==
  /\ newest = NotCalled
  /\ newest' = pickMostRecentBroadcast(items)
  /\ UNCHANGED <<items, newestSorted, keyVars, startVars, extVars>>

CallPickSorted ==
  /\ newestSorted = NotCalled
  /\ newestSorted' = pickMostRecentBroadcastSorted(items)
  /\ UNCHANGED <<items, newest, keyVars, startVars, extVars>>

PickNext == AddBroadcast \/ CallPick \/ CallPickSorted

SpecPick == PickInit /\ [][PickNext]_vars

\* ---------------------------------------------------------------------
\* getYouTubeStreamKey / peekYouTubeStreamKey
\* ---------------------------------------------------------------------
KeyInit ==
  /\ PickIdle
  /\ streams \in StreamLists(MaxStreams)
  /\ enabled = {1}
  /\ KeyIdle
  /\ StartIdle
  /\ ExtIdle

StartCall(p, k) ==
  /\ p \in enabled
  /\ pc[p] = "idle"
  /\ calls < MaxCalls
  /\ calls' = calls + 1
  /\ kind' = [kind EXCEPT ![p] = k]
  /\ pc' = [pc EXCEPT ![p] = "ensureAccessToken"]
  /\ UNCHANGED <<streams, enabled, keyLog, listed, result, inserts, pickVars, startVars, extVars>>

CallGetYouTubeStreamKey(p) == StartCall(p, "get")
CallPeekYouTubeStreamKey(p) == StartCall(p, "peek")

\* const { access_token } = await ensureAccessToken(): resolves or throws
EnsureAccessToken(p) ==
  /\ pc[p] = "ensureAccessToken"
  /\ \E ok \in BOOLEAN :
       pc' = [pc EXCEPT ![p] = IF ok THEN "listStreams" ELSE "failed"]
  /\ UNCHANGED <<streams, enabled, keyLog, kind, listed, result, inserts, calls, pickVars, startVars, extVars>>

\* getJSON throws on a non-ok response
ListStreamsFails(p) ==
  /\ pc[p] = "listStreams"
  /\ pc' = [pc EXCEPT ![p] = "failed"]
  /\ UNCHANGED <<streams, enabled, keyLog, kind, listed, result, inserts, calls, pickVars, startVars, extVars>>

\* mutant: peek returns the key of the stream it found without the
\* ingest URL
ListStreamsPeekKeyOnly(p) ==
  /\ pc[p] = "listStreams"
  /\ listed' = [listed EXCEPT ![p] = streams]
  /\ LET found == ScanStreams(streams, 1) IN
       IF found # 0
       THEN /\ result' = [result EXCEPT ![p] =
                 IF kind[p] = "peek" THEN InsertedResult(streams[found].streamName)
                 ELSE FoundResult(streams[found])]
            /\ pc' = [pc EXCEPT ![p] = "done"]
            /\ UNCHANGED inserts
       ELSE IF kind[p] = "peek"
       THEN /\ result' = [result EXCEPT ![p] = EmptyResult]
            /\ pc' = [pc EXCEPT ![p] = "done"]
            /\ UNCHANGED inserts
       ELSE /\ pc' = [pc EXCEPT ![p] = "insertReusableStream"]
            /\ inserts' = [inserts EXCEPT ![p] = @ + 1]
            /\ UNCHANGED result
  /\ UNCHANGED <<streams, enabled, keyLog, kind, calls, pickVars, startVars, extVars>>

\* mutant: peek falls through to the insert like getYouTubeStreamKey
ListStreamsPeekCreates(p) ==
  /\ pc[p] = "listStreams"
  /\ listed' = [listed EXCEPT ![p] = streams]
  /\ LET found == ScanStreams(streams, 1) IN
       IF found # 0
       THEN /\ result' = [result EXCEPT ![p] = FoundResult(streams[found])]
            /\ pc' = [pc EXCEPT ![p] = "done"]
            /\ UNCHANGED inserts
       ELSE /\ pc' = [pc EXCEPT ![p] = "insertReusableStream"]
            /\ inserts' = [inserts EXCEPT ![p] = @ + 1]
            /\ UNCHANGED result
  /\ UNCHANGED <<streams, enabled, keyLog, kind, calls, pickVars, startVars, extVars>>

\* the listing arrives and the loop runs over list.items ?? []: a reusable
\* stream with a key is returned; without one, peek returns {} and get
\* issues the insert request
ListStreams(p) ==
  /\ pc[p] = "listStreams"
  /\ listed' = [listed EXCEPT ![p] = streams]
  /\ LET found == ScanStreams(streams, 1) IN
       IF found # 0
       THEN /\ result' = [result EXCEPT ![p] = FoundResult(streams[found])]
            /\ pc' = [pc EXCEPT ![p] = "done"]
            /\ UNCHANGED inserts
       ELSE IF kind[p] = "peek"
       THEN /\ result' = [result EXCEPT ![p] = EmptyResult]
            /\ pc' = [pc EXCEPT ![p] = "done"]
            /\ UNCHANGED inserts
       ELSE /\ pc' = [pc EXCEPT ![p] = "insertReusableStream"]
            /\ inserts' = [inserts EXCEPT ![p] = @ + 1]
            /\ UNCHANGED result
  /\ UNCHANGED <<streams, enabled, keyLog, kind, calls, pickVars, startVars, extVars>>

\* mutant: the insert is conditional on the provider still holding no
\* reusable stream with a key; otherwise that stream is returned
InsertReusableStreamIfStillNone(p) ==
  /\ pc[p] = "insertReusableStream"
  /\ \/ /\ LET found == ScanStreams(streams, 1) IN
             IF found # 0
             THEN /\ result' = [result EXCEPT ![p] = FoundResult(streams[found])]
                  /\ UNCHANGED streams
             ELSE /\ streams' = Append(streams, CreatedStream(Len(streams) + 1))
                  /\ result' = [result EXCEPT ![p] = InsertedResult(StreamKeyOf(Len(streams) + 1))]
        /\ pc' = [pc EXCEPT ![p] = "done"]
     \/ /\ pc' = [pc EXCEPT ![p] = "failed"]
        /\ UNCHANGED <<streams, result>>
  /\ UNCHANGED <<enabled, keyLog, kind, listed, inserts, calls, pickVars, startVars, extVars>>

\* the provider answers the insert: it creates the stream and returns it,
\* or answers non-ok and insertReusableStream throws
InsertReusableStream(p) ==
  /\ pc[p] = "insertReusableStream"
  /\ \/ /\ streams' = Append(streams, CreatedStream(Len(streams) + 1))
        /\ result' = [result EXCEPT ![p] = InsertedResult(StreamKeyOf(Len(streams) + 1))]
        /\ pc' = [pc EXCEPT ![p] = "done"]
     \/ /\ pc' = [pc EXCEPT ![p] = "failed"]
        /\ UNCHANGED <<streams, result>>
  /\ UNCHANGED <<enabled, keyLog, kind, listed, inserts, calls, pickVars, startVars, extVars>>

\* the promise settles and the caller is free to invoke again
Settle(p) ==
  /\ pc[p] \in {"done", "failed"}
  /\ pc' = [pc EXCEPT ![p] = "idle"]
  /\ kind' = [kind EXCEPT ![p] = "none"]
  /\ listed' = [listed EXCEPT ![p] = <<>>]
  /\ result' = [result EXCEPT ![p] = EmptyResult]
  /\ inserts' = [inserts EXCEPT ![p] = 0]
  /\ keyLog' = Append(keyLog, [kind |-> kind[p], outcome |-> pc[p], listed |-> listed[p],
                                result |-> result[p], inserts |-> inserts[p]])
  /\ UNCHANGED <<streams, enabled, calls, pickVars, startVars, extVars>>

KeyNext ==
  \E p \in Callers :
    \/ CallGetYouTubeStreamKey(p)
    \/ CallPeekYouTubeStreamKey(p)
    \/ EnsureAccessToken(p)
    \/ ListStreamsFails(p)
    \/ ListStreams(p)
    \/ InsertReusableStream(p)
    \/ Settle(p)

SpecKey == KeyInit /\ [][KeyNext]_vars

\* ---------------------------------------------------------------------
\* useStartStream.mutationFn and useEndStream.mutationFn
\* ---------------------------------------------------------------------
\* The hooks' data when the mutation starts.  useBroadcast and
\* useLivestream are enabled only with an access token; the provider's
\* binding of the fetched broadcast is the one that was fetched.
StartInit ==
  /\ PickIdle
  /\ streams = <<>> /\ enabled = {} /\ KeyIdle
  /\ accessToken \in {"", "token"}
  /\ broadcast \in {NoBroadcast} \cup FetchedBroadcasts
  /\ livestream \in {"", "s2"}
  /\ accessToken = "" => (broadcast = NoBroadcast /\ livestream = "")
  /\ boundTo \in [BroadcastIds -> {"", "s1"}]
  /\ boundTo[FetchedBroadcastId] = broadcast.boundStreamId
  /\ boundTo[CreatedBroadcastId] = ""
  /\ RunIdle
  /\ ExtIdle

Fail(msg, ev) ==
  /\ step' = "failed" /\ error' = msg /\ events' = ev
  /\ UNCHANGED returned

Return(id, sid, status, ev) ==
  /\ step' = "done"
  /\ returned' = [broadcastId |-> id, streamId |-> sid, status |-> status]
  /\ events' = ev
  /\ UNCHANGED error

\* steps 5 and 6: return the status unchanged unless it is targetable; wait
\* after a create; otherwise issue the transition to live
DecideTransition(id, st, jc, sid, ev) ==
  /\ workingBroadcastId' = id /\ workingBroadcastStatus' = st
  /\ justCreated' = jc /\ streamId' = sid
  /\ IF st \notin TargetableStatuses THEN Return(id, sid, st, ev)
     ELSE IF jc
     THEN /\ step' = "waitAfterCreate" /\ events' = ev
          /\ UNCHANGED <<returned, error>>
     ELSE /\ step' = "transitionBroadcast"
          /\ events' = Append(ev, TransitionRequest(id, "live"))
          /\ UNCHANGED <<returned, error>>

\* steps 3 and 4: resolve the stream id, bind when the fetched broadcast has
\* no bound stream
AcquireStreamAndBind(o, id, st, jc, ev) ==
  LET sid == Or(Or(o.streamId, broadcast.boundStreamId), livestream) IN
  IF id = ""
  THEN /\ Fail("No broadcast available after creation attempt", ev)
       /\ workingBroadcastId' = id /\ workingBroadcastStatus' = st
       /\ justCreated' = jc /\ UNCHANGED streamId
  ELSE IF sid = ""
  THEN /\ Fail("No livestream stream id available to bind", ev)
       /\ workingBroadcastId' = id /\ workingBroadcastStatus' = st
       /\ justCreated' = jc /\ UNCHANGED streamId
  ELSE IF broadcast.boundStreamId = ""
  THEN /\ step' = "bindBroadcastToStream"
       /\ events' = Append(ev, BindRequest(id, sid))
       /\ workingBroadcastId' = id /\ workingBroadcastStatus' = st
       /\ justCreated' = jc /\ streamId' = sid
       /\ UNCHANGED <<returned, error>>
  ELSE DecideTransition(id, st, jc, sid, ev)

\* mutant: no early exit on a live broadcast
StartStreamNoEarlyExit(o) ==
  /\ step = "idle"
  /\ op' = "start" /\ opts' = o
  /\ LET id == Or(o.broadcastId, broadcast.id)
         st == broadcast.status IN
     IF accessToken = ""
     THEN /\ Fail("Missing access token", events)
          /\ UNCHANGED <<workingBroadcastId, workingBroadcastStatus, justCreated, streamId>>
     ELSE IF id = "" \/ st = "complete"
     THEN /\ step' = "createBroadcast"
          /\ events' = Append(events, CreateRequest(broadcast.title, broadcast.description))
          /\ workingBroadcastId' = id /\ workingBroadcastStatus' = st
          /\ UNCHANGED <<justCreated, streamId, returned, error>>
     ELSE AcquireStreamAndBind(o, id, st, FALSE, events)
  /\ UNCHANGED <<hookVars, boundTo, pickVars, keyVars, extVars>>

\* mutationFn(opts) up to its first await
StartStream(o) ==
  /\ step = "idle"
  /\ op' = "start" /\ opts' = o
  /\ LET id == Or(o.broadcastId, broadcast.id)
         st == broadcast.status IN
     IF accessToken = ""
     THEN /\ Fail("Missing access token", events)
          /\ UNCHANGED <<workingBroadcastId, workingBroadcastStatus, justCreated, streamId>>
     ELSE IF st = "live" /\ id # ""
     THEN /\ Return(id, Or(Or(Or(o.streamId, broadcast.boundStreamId), livestream), ""),
                    st, events)
          /\ workingBroadcastId' = id /\ workingBroadcastStatus' = st
          /\ UNCHANGED <<justCreated, streamId>>
     ELSE IF id = "" \/ st = "complete"
     THEN /\ step' = "createBroadcast"
          /\ events' = Append(events, CreateRequest(broadcast.title, broadcast.description))
          /\ workingBroadcastId' = id /\ workingBroadcastStatus' = st
          /\ UNCHANGED <<justCreated, streamId, returned, error>>
     ELSE AcquireStreamAndBind(o, id, st, FALSE, events)
  /\ UNCHANGED <<hookVars, boundTo, pickVars, keyVars, extVars>>

\* the provider answers the insert: non-ok (createBroadcast throws), ok
\* with the created broadcast under items[0], or ok without items
CreateBroadcastResponse ==
  /\ step = "createBroadcast"
  /\ LET request == events[Len(events)] IN
     \/ /\ Fail("Failed to create broadcast", Append(events, Answer("fail", request)))
        /\ UNCHANGED <<workingBroadcastId, workingBroadcastStatus, justCreated, streamId>>
     \/ \E st \in {"created", "ready", ""} :
          AcquireStreamAndBind(opts, CreatedBroadcastId, st, TRUE,
                               Append(events, Answer("ok", request)))
     \/ AcquireStreamAndBind(opts, "", "", TRUE, Append(events, Answer("ok", request)))
  /\ UNCHANGED <<hookVars, boundTo, op, opts, pickVars, keyVars, extVars>>

\* mutant: a non-ok answer to the bind is not checked
BindResponseUnchecked ==
  /\ step = "bindBroadcastToStream"
  /\ LET request == events[Len(events)] IN
     \/ /\ UNCHANGED boundTo
        /\ DecideTransition(workingBroadcastId, workingBroadcastStatus, justCreated,
                            streamId, Append(events, Answer("fail", request)))
     \/ /\ boundTo' = [boundTo EXCEPT ![workingBroadcastId] = streamId]
        /\ DecideTransition(workingBroadcastId, workingBroadcastStatus, justCreated,
                            streamId, Append(events, Answer("ok", request)))
  /\ UNCHANGED <<hookVars, op, opts, pickVars, keyVars, extVars>>

\* the provider answers the bind: it binds the broadcast, or answers non-ok
BindBroadcastToStreamResponse ==
  /\ step = "bindBroadcastToStream"
  /\ LET request == events[Len(events)] IN
     \/ /\ Fail("Failed to bind broadcast to stream", Append(events, Answer("fail", request)))
        /\ UNCHANGED <<workingBroadcastId, workingBroadcastStatus, justCreated, streamId, boundTo>>
     \/ /\ boundTo' = [boundTo EXCEPT ![workingBroadcastId] = streamId]
        /\ DecideTransition(workingBroadcastId, workingBroadcastStatus, justCreated,
                            streamId, Append(events, Answer("ok", request)))
  /\ UNCHANGED <<hookVars, op, opts, pickVars, keyVars, extVars>>

\* the stabilization delay after a create has elapsed
WaitAfterCreate ==
  /\ step = "waitAfterCreate"
  /\ step' = "transitionBroadcast"
  /\ events' = Append(events, TransitionRequest(workingBroadcastId, "live"))
  /\ UNCHANGED <<hookVars, boundTo, op, opts, workingBroadcastId, workingBroadcastStatus,
                 justCreated, streamId, returned, error, pickVars, keyVars, extVars>>

\* the provider answers the transition to live; the returned status is
\* items[0].status.lifeCycleStatus of the answer, undefined without items
TransitionBroadcastResponse ==
  /\ step = "transitionBroadcast"
  /\ LET request == events[Len(events)] IN
     \/ Fail("Failed to transition broadcast", Append(events, Answer("fail", request)))
     \/ \E st \in {"live", "liveStarting", ""} :
          Return(workingBroadcastId, streamId, st, Append(events, Answer("ok", request)))
  /\ UNCHANGED <<hookVars, boundTo, op, opts, workingBroadcastId, workingBroadcastStatus,
                 justCreated, streamId, pickVars, keyVars, extVars>>

\* mutant: the lifecycle status is not checked before ending
EndStreamUnchecked ==
  /\ step = "idle"
  /\ op' = "end"
  /\ IF accessToken = "" THEN Fail("Missing access token", events)
     ELSE IF broadcast.id = "" THEN Fail("No active broadcast id", events)
     ELSE /\ step' = "endTransition"
          /\ events' = Append(events, TransitionRequest(broadcast.id, "complete"))
          /\ UNCHANGED <<returned, error>>
  /\ UNCHANGED <<hookVars, boundTo, opts, workingBroadcastId, workingBroadcastStatus,
                 justCreated, streamId, pickVars, keyVars, extVars>>

\* useEndStream.mutationFn up to its await
EndStream ==
  /\ step = "idle"
  /\ op' = "end"
  /\ IF accessToken = "" THEN Fail("Missing access token", events)
     ELSE IF broadcast.id = "" THEN Fail("No active broadcast id", events)
     ELSE IF broadcast.status # "live" THEN Fail("Broadcast not live - cannot end", events)
     ELSE /\ step' = "endTransition"
          /\ events' = Append(events, TransitionRequest(broadcast.id, "complete"))
          /\ UNCHANGED <<returned, error>>
  /\ UNCHANGED <<hookVars, boundTo, opts, workingBroadcastId, workingBroadcastStatus,
                 justCreated, streamId, pickVars, keyVars, extVars>>

\* the provider answers the transition to complete
EndTransitionResponse ==
  /\ step = "endTransition"
  /\ LET request == events[Len(events)] IN
     \/ Fail("Failed to end broadcast", Append(events, Answer("fail", request)))
     \/ \E st \in {"complete", ""} :
          Return("", "", st, Append(events, Answer("ok", request)))
  /\ UNCHANGED <<hookVars, boundTo, op, opts, workingBroadcastId, workingBroadcastStatus,
                 justCreated, streamId, pickVars, keyVars, extVars>>

StartNext ==
  \/ \E o \in StartStreamOptions : StartStream(o)
  \/ CreateBroadcastResponse
  \/ BindBroadcastToStreamResponse
  \/ WaitAfterCreate
  \/ TransitionBroadcastResponse
  \/ EndStream
  \/ EndTransitionResponse

SpecStart == StartInit /\ [][StartNext]_vars

\* ---------------------------------------------------------------------
\* upsertMostRecentActiveBroadcastTitleDescription
\* ---------------------------------------------------------------------
notUpsertVars == <<coreVars, labelVars, routeVars, tokenVars>>

UpsertInit ==
  /\ PickIdle
  /\ streams = <<>> /\ enabled = {1} /\ KeyIdle
  /\ StartIdle
  /\ ytBroadcasts \in BroadcastLists(MaxItems)
  /\ UpsertIdle
  /\ LabelIdle
  /\ RouteIdle
  /\ tokenFile = NoTokenFile /\ OAuthIdle /\ AuthIdle

UpsertFail(p, message, text) ==
  /\ upsertPc' = [upsertPc EXCEPT ![p] = "failed"]
  /\ upsertError' = [upsertError EXCEPT ![p] = [message |-> message, text |-> text]]

\* the answer to the caller's pending request is recorded
Answered(p, answer, text) ==
  [i \in 1..Len(requests) |->
     IF requests[i].by = p /\ requests[i].answer = "pending"
     THEN [requests[i] EXCEPT !.answer = answer, !.text = text] ELSE requests[i]]
PendingOf(p) ==
  CHOOSE i \in 1..Len(requests) : requests[i].by = p /\ requests[i].answer = "pending"

\* upsertMostRecentActiveBroadcastTitleDescription(input) up to its first await
CallUpsert(p, in) ==
  /\ p \in enabled
  /\ upsertPc[p] = "idle"
  /\ upsertPc' = [upsertPc EXCEPT ![p] = "ensureAccessToken"]
  /\ input' = [input EXCEPT ![p] = in]
  /\ UNCHANGED <<ytBroadcasts, picked, requests, upsertResult, upsertError, listing, notUpsertVars>>

\* const { access_token } = await ensureAccessToken(): resolves or throws
UpsertEnsureAccessToken(p) ==
  /\ upsertPc[p] = "ensureAccessToken"
  /\ \/ /\ upsertPc' = [upsertPc EXCEPT ![p] = "listBroadcasts"]
        /\ UNCHANGED upsertError
     \/ UpsertFail(p, "ensureAccessToken", "")
  /\ UNCHANGED <<ytBroadcasts, input, picked, requests, upsertResult, listing, notUpsertVars>>

\* getJSON throws on a non-ok response to the listing
ListBroadcastsFails(p) ==
  /\ upsertPc[p] = "listBroadcasts"
  /\ \E text \in ProviderMessages : UpsertFail(p, "HTTP", text)
  /\ UNCHANGED <<ytBroadcasts, input, picked, requests, upsertResult, listing, notUpsertVars>>

\* mutant: the most recent broadcast of any status is picked
ListBroadcastsAnyStatus(p) ==
  /\ upsertPc[p] = "listBroadcasts"
  /\ LET chosen == pickMostRecentBroadcast([def |-> TRUE, list |-> ytBroadcasts]) IN
     /\ listing' = [listing EXCEPT ![p] = [def |-> TRUE, list |-> ytBroadcasts]]
     /\ picked' = [picked EXCEPT ![p] = chosen]
     /\ IF chosen.id # 0
        THEN /\ upsertPc' = [upsertPc EXCEPT ![p] =
                  IF ~Truthy(input[p].title) /\ ~Truthy(input[p].description)
                  THEN "getBroadcastById" ELSE "updateEnsureAccessToken"]
             /\ UNCHANGED requests
        ELSE /\ upsertPc' = [upsertPc EXCEPT ![p] = "insertBroadcast"]
             /\ \E now \in Times : requests' = Append(requests, InsertRequest(p, input[p], now))
  /\ UNCHANGED <<ytBroadcasts, input, upsertResult, upsertError, notUpsertVars>>

\* the listing arrives: the most recent active broadcast is picked.  With
\* one, updateTitleDescription returns at once when neither field is
\* truthy and otherwise awaits its own ensureAccessToken; without one,
\* insertBroadcast issues its request
ListBroadcasts(p) ==
  /\ upsertPc[p] = "listBroadcasts"
  /\ LET chosen == pickMostRecentBroadcast([def |-> TRUE, list |-> ActiveOf(ytBroadcasts)]) IN
     /\ listing' = [listing EXCEPT ![p] = [def |-> TRUE, list |-> ytBroadcasts]]
     /\ picked' = [picked EXCEPT ![p] = chosen]
     /\ IF chosen.id # 0
        THEN /\ upsertPc' = [upsertPc EXCEPT ![p] =
                  IF ~Truthy(input[p].title) /\ ~Truthy(input[p].description)
                  THEN "getBroadcastById" ELSE "updateEnsureAccessToken"]
             /\ UNCHANGED requests
        ELSE /\ upsertPc' = [upsertPc EXCEPT ![p] = "insertBroadcast"]
             /\ \E now \in Times : requests' = Append(requests, InsertRequest(p, input[p], now))
  /\ UNCHANGED <<ytBroadcasts, input, upsertResult, upsertError, notUpsertVars>>

\* mutant: the update request always carries both fields
UpdateEnsureAccessTokenBothFields(p) ==
  /\ upsertPc[p] = "updateEnsureAccessToken"
  /\ \/ /\ upsertPc' = [upsertPc EXCEPT ![p] = "updateTitleDescription"]
        /\ \E now \in Times :
             requests' = Append(requests,
               UpdateRequest(p, picked[p].id,
                 [title |-> Nullish(input[p].title, EmptyString),
                  description |-> Nullish(input[p].description, EmptyString)], now))
        /\ UNCHANGED upsertError
     \/ /\ UpsertFail(p, "ensureAccessToken", "")
        /\ UNCHANGED requests
  /\ UNCHANGED <<ytBroadcasts, input, picked, upsertResult, listing, notUpsertVars>>

\* updateTitleDescription's ensureAccessToken resolves and the PUT is
\* issued, or it throws
UpdateEnsureAccessToken(p) ==
  /\ upsertPc[p] = "updateEnsureAccessToken"
  /\ \/ /\ upsertPc' = [upsertPc EXCEPT ![p] = "updateTitleDescription"]
        /\ \E now \in Times :
             requests' = Append(requests, UpdateRequest(p, picked[p].id, input[p], now))
        /\ UNCHANGED upsertError
     \/ /\ UpsertFail(p, "ensureAccessToken", "")
        /\ UNCHANGED requests
  /\ UNCHANGED <<ytBroadcasts, input, picked, upsertResult, listing, notUpsertVars>>

\* the provider answers the PUT: it applies the snippet, or answers non-ok
\* and updateTitleDescription throws with the response text
UpdateTitleDescriptionResponse(p) ==
  /\ upsertPc[p] = "updateTitleDescription"
  /\ LET request == requests[PendingOf(p)] IN
     \/ /\ requests' = Answered(p, "ok", "")
        /\ ytBroadcasts' = [ytBroadcasts EXCEPT ![request.id] = ApplyUpdate(@, request)]
        /\ upsertPc' = [upsertPc EXCEPT ![p] = "getBroadcastById"]
        /\ UNCHANGED upsertError
     \/ /\ \E text \in ProviderMessages :
             /\ requests' = Answered(p, "fail", text)
             /\ UpsertFail(p, "Update failed", text)
        /\ UNCHANGED ytBroadcasts
  /\ UNCHANGED <<input, picked, upsertResult, listing, notUpsertVars>>

\* (await getBroadcastById(access_token, picked.id)) ?? picked: the fresh
\* broadcast, the picked one when the answer has no items; getJSON throws
\* on a non-ok response
GetBroadcastById(p) ==
  /\ upsertPc[p] = "getBroadcastById"
  /\ \/ /\ \E updated \in {ytBroadcasts[picked[p].id], picked[p]} :
             upsertResult' = [upsertResult EXCEPT ![p] = InfoOf(updated)]
        /\ upsertPc' = [upsertPc EXCEPT ![p] = "done"]
        /\ UNCHANGED upsertError
     \/ /\ \E text \in ProviderMessages : UpsertFail(p, "HTTP", text)
        /\ UNCHANGED upsertResult
  /\ UNCHANGED <<ytBroadcasts, input, picked, requests, listing, notUpsertVars>>

\* mutant: a failed insert is issued once more
InsertBroadcastRetries(p) ==
  /\ upsertPc[p] = "insertBroadcast"
  /\ LET request == requests[PendingOf(p)] IN
     \/ /\ requests' = Answered(p, "ok", "")
        /\ ytBroadcasts' = Append(ytBroadcasts, CreatedBroadcast(Len(ytBroadcasts) + 1, request))
        /\ upsertResult' = [upsertResult EXCEPT ![p] =
             InfoOf(CreatedBroadcast(Len(ytBroadcasts) + 1, request))]
        /\ upsertPc' = [upsertPc EXCEPT ![p] = "done"]
        /\ UNCHANGED upsertError
     \/ /\ Len(requests) < 2
        /\ requests' = Append(Answered(p, "fail", "forbidden"), request)
        /\ UNCHANGED <<ytBroadcasts, upsertResult, upsertPc, upsertError>>
  /\ UNCHANGED <<input, picked, listing, notUpsertVars>>

\* the provider answers the POST: it creates the broadcast and returns it,
\* or answers non-ok and insertBroadcast throws with the response body
InsertBroadcastResponse(p) ==
  /\ upsertPc[p] = "insertBroadcast"
  /\ LET request == requests[PendingOf(p)] IN
     \/ /\ requests' = Answered(p, "ok", "")
        /\ ytBroadcasts' = Append(ytBroadcasts, CreatedBroadcast(Len(ytBroadcasts) + 1, request))
        /\ upsertResult' = [upsertResult EXCEPT ![p] =
             InfoOf(CreatedBroadcast(Len(ytBroadcasts) + 1, request))]
        /\ upsertPc' = [upsertPc EXCEPT ![p] = "done"]
        /\ UNCHANGED upsertError
     \/ /\ \E text \in ProviderMessages :
             /\ requests' = Answered(p, "fail", text)
             /\ UpsertFail(p, "Insert broadcast failed", text)
        /\ UNCHANGED <<ytBroadcasts, upsertResult>>
  /\ UNCHANGED <<input, picked, listing, notUpsertVars>>

UpsertNext ==
  \E p \in Callers :
    \/ \E in \in UpsertInputs : CallUpsert(p, in)
    \/ UpsertEnsureAccessToken(p)
    \/ ListBroadcastsFails(p)
    \/ ListBroadcasts(p)
    \/ UpdateEnsureAccessToken(p)
    \/ UpdateTitleDescriptionResponse(p)
    \/ GetBroadcastById(p)
    \/ InsertBroadcastResponse(p)

SpecUpsert == UpsertInit /\ [][UpsertNext]_vars

\* ---------------------------------------------------------------------
\* Status display
\* ---------------------------------------------------------------------
notLabelVars == <<coreVars, upsertVars, routeVars, tokenVars>>

LabelInit ==
  /\ PickIdle
  /\ streams = <<>> /\ enabled = {} /\ KeyIdle
  /\ StartIdle
  /\ ExtIdle

\* BroadcastStatus renders a polled status
RenderBroadcastStatus(s) ==
  /\ shownStatus' = s
  /\ badge' = humanizeStatus(s)
  /\ UNCHANGED <<hookStream, hookStatus, routeStream, routeStatus, notLabelVars>>

\* one refetch of useLivestream's query
PollUseLivestream(latest) ==
  /\ hookStream' = latest
  /\ hookStatus' = useLivestreamStatus(latest)
  /\ UNCHANGED <<shownStatus, badge, routeStream, routeStatus, notLabelVars>>

\* one answered GET /api/livestream/status
GetLivestreamStatus(latest) ==
  /\ routeStream' = latest
  /\ routeStatus' = RouteLivestreamStatus(LiveStreamStatus(latest))
  /\ UNCHANGED <<shownStatus, badge, hookStream, hookStatus, notLabelVars>>

LabelNext ==
  \/ \E s \in ShownStatuses : RenderBroadcastStatus(s)
  \/ \E latest \in LatestStreams : PollUseLivestream(latest)
  \/ \E latest \in LatestStreams : GetLivestreamStatus(latest)

SpecLabel == LabelInit /\ [][LabelNext]_vars

\* ---------------------------------------------------------------------
\* Session-backed routes
\* ---------------------------------------------------------------------
notRouteVars == <<coreVars, upsertVars, labelVars, tokenVars>>

RouteInit ==
  /\ PickIdle
  /\ streams = <<>> /\ enabled = {} /\ KeyIdle
  /\ StartIdle
  /\ ExtIdle

Respond(status, message, calls_) ==
  /\ response' = [status |-> status, error |-> message]
  /\ svcCalls' = calls_
  /\ routePc' = "responded"

\* the pending call with its answer
AnsweredCall(answer, text) ==
  [svcCalls EXCEPT ![Len(svcCalls)] = [@ EXCEPT !.answer = answer, !.text = text]]

\* the first provider call of each handler
FirstCall(handler, body, now) ==
  CASE handler = "GET /api/broadcast/fields" -> GetCall("latestTitleAndDescription", "")
    [] handler = "GET /api/broadcast/status" -> GetCall("latestTitleAndDescription", "")
    [] handler = "GET /livestream/health" -> GetCall("getHealthStatus", "")
    [] handler = "GET /api/livestream/stream-key" -> GetCall("streamKey", "")
    [] handler = "GET /api/livestream/status" -> GetCall("status", "")
    [] handler = "POST /api/broadcast/fields" ->
         IF body.id # "" THEN GetCall("fromID", body.id) ELSE CreateBroadcastCall(body, now)

\* a request arrives: the handler awaits getAccessToken, answers 401
\* without a token, and otherwise issues its first provider call
Request(handler, token, body) ==
  /\ routePc \in {"idle", "responded"}
  /\ served < MaxCalls
  /\ served' = served + 1
  /\ req' = [handler |-> handler, token |-> token, body |-> body]
  /\ IF ~Authorized(token)
     THEN Respond(401, "Unauthorized", <<>>)
     ELSE /\ \E now \in Times : svcCalls' = <<FirstCall(handler, body, now)>>
          /\ routePc' = "calling"
          /\ response' = NoResponse
  /\ currentBroadcast' = NoCurrentBroadcast
  /\ UNCHANGED notRouteVars

\* a read-only service call is answered.  A non-ok answer makes the
\* service throw (latestTitleAndDescription on data.items.map) and the
\* request ends with 500; /api/broadcast/status answers 404 without a
\* latest broadcast and otherwise goes on to Broadcast.status
ReadResponse ==
  /\ routePc = "calling"
  /\ svcCalls[Len(svcCalls)].call \in
       {"latestTitleAndDescription", "getHealthStatus", "streamKey", "status", "broadcastStatus"}
  /\ LET call == svcCalls[Len(svcCalls)].call IN
     \/ \E text \in ProviderMessages :
          Respond(500, call \o " failed", AnsweredCall("fail", text))
     \/ /\ call = "latestTitleAndDescription" /\ req.handler = "GET /api/broadcast/status"
        /\ \/ Respond(404, "Not Found", AnsweredCall("ok", ""))
           \/ /\ svcCalls' = Append(AnsweredCall("ok", ""), GetCall("broadcastStatus", "b1"))
              /\ UNCHANGED <<routePc, response>>
     \/ /\ ~(call = "latestTitleAndDescription" /\ req.handler = "GET /api/broadcast/status")
        /\ Respond(200, "", AnsweredCall("ok", ""))
  /\ UNCHANGED <<req, served, currentBroadcast, notRouteVars>>

\* mutant: the insert is issued although fromID resolved to a broadcast
FromIDResponseInsertsWhenFound ==
  /\ routePc = "calling"
  /\ svcCalls[Len(svcCalls)].call = "fromID"
  /\ \/ /\ \E text \in ProviderMessages :
             Respond(500, "broadcast-by-id failed", AnsweredCall("fail", text))
        /\ UNCHANGED currentBroadcast
     \/ /\ \E now \in Times, current \in CurrentBroadcasts :
             /\ currentBroadcast' = current
             /\ svcCalls' = Append(AnsweredCall("ok", ""), CreateBroadcastCall(req.body, now))
        /\ UNCHANGED <<routePc, response>>
     \/ /\ \E now \in Times :
             svcCalls' = Append(AnsweredCall("ok", ""), CreateBroadcastCall(req.body, now))
        /\ UNCHANGED <<routePc, response, currentBroadcast>>
  /\ UNCHANGED <<req, served, notRouteVars>>

\* Broadcast.fromID is answered: non-ok throws; with the broadcast the PUT
\* is issued, without it (data.items?.[0] is undefined) the insert
FromIDResponse ==
  /\ routePc = "calling"
  /\ svcCalls[Len(svcCalls)].call = "fromID"
  /\ \/ /\ \E text \in ProviderMessages :
             Respond(500, "broadcast-by-id failed", AnsweredCall("fail", text))
        /\ UNCHANGED currentBroadcast
     \/ /\ \E now \in Times, current \in CurrentBroadcasts :
             /\ currentBroadcast' = current
             /\ svcCalls' = Append(AnsweredCall("ok", ""),
                  UpdateBroadcastCall(req.body, Truthy(current.scheduledStartTime), now))
        /\ UNCHANGED <<routePc, response>>
     \/ /\ \E now \in Times :
             svcCalls' = Append(AnsweredCall("ok", ""), CreateBroadcastCall(req.body, now))
        /\ UNCHANGED <<routePc, response, currentBroadcast>>
  /\ UNCHANGED <<req, served, notRouteVars>>

\* the insert is answered: createBroadcast throws on a non-ok answer
CreateBroadcastServiceResponse ==
  /\ routePc = "calling"
  /\ svcCalls[Len(svcCalls)].call = "createBroadcast"
  /\ \/ \E text \in ProviderMessages :
          Respond(500, CreateErrorMessage(text), AnsweredCall("fail", text))
     \/ Respond(200, "", AnsweredCall("ok", ""))
  /\ UNCHANGED <<req, served, currentBroadcast, notRouteVars>>

\* the PUT is answered: updateBroadcastTitleDescription throws on a
\* non-ok answer
UpdateBroadcastServiceResponse ==
  /\ routePc = "calling"
  /\ svcCalls[Len(svcCalls)].call = "updateBroadcast"
  /\ \/ \E text \in ProviderMessages :
          Respond(500, UpdateErrorMessage(text), AnsweredCall("fail", text))
     \/ Respond(200, "", AnsweredCall("ok", ""))
  /\ UNCHANGED <<req, served, currentBroadcast, notRouteVars>>

RouteNext ==
  \/ \E handler \in Handlers, token \in SessionTokens :
       \E body \in BodiesOf(handler) : Request(handler, token, body)
  \/ ReadResponse
  \/ FromIDResponse
  \/ CreateBroadcastServiceResponse
  \/ UpdateBroadcastServiceResponse

SpecRoutes == RouteInit /\ [][RouteNext]_vars

\* ---------------------------------------------------------------------
\* /api/oauth/google/login and /api/oauth/google/callback
\* ---------------------------------------------------------------------
notOAuthVars == <<coreVars, upsertVars, labelVars, routeVars, authVars>>

OAuthInit ==
  /\ PickIdle
  /\ streams = <<>> /\ enabled = {} /\ KeyIdle
  /\ StartIdle
  /\ ExtIdle

\* GET /api/oauth/google/login: a fresh state goes into the redirect and
\* into the browser's oauth_state cookie
Login ==
  /\ oauthPc # "exchanging"
  /\ oauthRequests < MaxCalls
  /\ oauthRequests' = oauthRequests + 1
  /\ \E state \in StateNonces \ issued :
       /\ issued' = issued \cup {state}
       /\ cookieJar' = state
  /\ oauthPc' = "responded"
  /\ oauthResponse' = [status |-> 302, error |-> ""]
  /\ cb' = NoCallback /\ oauthCalls' = 0 /\ oauthWrites' = 0
  /\ UNCHANGED <<tokenFile, notOAuthVars>>

\* GET /api/oauth/google/callback up to its await: the two 400 answers, or
\* the token request is issued.  The cookie is the browser's, or whatever
\* another client sends.
Callback(code, state, cookie, fromBrowser) ==
  /\ oauthPc # "exchanging"
  /\ oauthRequests < MaxCalls
  /\ oauthRequests' = oauthRequests + 1
  /\ fromBrowser => cookie = cookieJar
  /\ cb' = [n |-> oauthRequests + 1, code |-> code, state |-> state, cookie |-> cookie,
            fromBrowser |-> fromBrowser]
  /\ oauthWrites' = 0
  /\ IF code = ""
     THEN /\ oauthResponse' = [status |-> 400, error |-> "Missing code"]
          /\ oauthPc' = "responded" /\ oauthCalls' = 0
     ELSE IF ~StateAccepted(state, cookie)
     THEN /\ oauthResponse' = [status |-> 400, error |-> "Invalid state"]
          /\ oauthPc' = "responded" /\ oauthCalls' = 0
     ELSE /\ oauthResponse' = NoResponse
          /\ oauthPc' = "exchanging" /\ oauthCalls' = 1
  /\ UNCHANGED <<cookieJar, issued, tokenFile, notOAuthVars>>

\* the token endpoint answers: non-ok gives 500; ok saves the token file
\* and redirects home, clearing the cookie
TokenExchangeResponse ==
  /\ oauthPc = "exchanging"
  /\ oauthPc' = "responded"
  /\ \/ /\ \E text \in ProviderMessages :
             oauthResponse' = [status |-> 500, error |-> "Token exchange failed: " \o text]
        /\ UNCHANGED <<tokenFile, oauthWrites, cookieJar>>
     \/ /\ tokenFile' = CodeGrantToken
        /\ oauthWrites' = oauthWrites + 1
        /\ cookieJar' = IF cb.fromBrowser THEN "" ELSE cookieJar
        /\ oauthResponse' = [status |-> 302, error |-> ""]
  /\ UNCHANGED <<issued, cb, oauthCalls, oauthRequests, notOAuthVars>>

OAuthNext ==
  \/ Login
  \/ \E code \in CodeValues, state \in StateValues, cookie \in StateValues,
        fromBrowser \in BOOLEAN : Callback(code, state, cookie, fromBrowser)
  \/ TokenExchangeResponse

SpecOAuth == OAuthInit /\ [][OAuthNext]_vars

\* ---------------------------------------------------------------------
\* ensureAccessToken
\* ---------------------------------------------------------------------
notAuthVars == <<coreVars, upsertVars, labelVars, routeVars, oauthVars>>

AuthInit ==
  /\ PickIdle
  /\ streams = <<>> /\ enabled = {} /\ KeyIdle
  /\ StartIdle
  /\ ytBroadcasts = <<>> /\ UpsertIdle /\ LabelIdle /\ RouteIdle /\ OAuthIdle
  /\ tokenFile \in SavedTokenFiles
  /\ AuthIdle

\* ensureAccessToken up to its first request: the saved file is loaded;
\* with a refresh token the refresh grant is posted, otherwise the device
\* code is requested
CallEnsureAccessToken ==
  /\ authPc = "idle"
  /\ saved' = tokenFile
  /\ authPc' = IF tokenFile.refresh_token # "" THEN "refresh" ELSE "deviceCode"
  /\ UNCHANGED <<refreshOutcome, refreshed, polls, authResult, authError, authWrites, tokenFile, notAuthVars>>

\* mutant: the answer's refresh_token, when it has one, replaces the
\* saved one ({ ...saved, ...refreshed } without the last property)
RefreshResponseKeepsAnswer ==
  /\ authPc = "refresh"
  /\ \/ \E tok \in RefreshedTokens :
          LET kept == IF tok.refresh_token # "" THEN tok.refresh_token
                      ELSE saved.refresh_token IN
          /\ refreshed' = tok
          /\ tokenFile' = TokenFile(tok.access_token, kept)
          /\ authWrites' = authWrites + 1
          /\ authResult' = [access_token |-> tok.access_token, refresh_token |-> kept]
          /\ refreshOutcome' = "ok" /\ authPc' = "done"
     \/ /\ refreshOutcome' = "failed" /\ authPc' = "deviceCode"
        /\ UNCHANGED <<tokenFile, authWrites, authResult, refreshed>>
  /\ UNCHANGED <<saved, polls, authError, notAuthVars>>

\* the refresh grant is answered: ok saves the merged file and returns,
\* non-ok is caught and the device flow starts
RefreshResponse ==
  /\ authPc = "refresh"
  /\ \/ \E tok \in RefreshedTokens :
          /\ refreshed' = tok
          /\ tokenFile' = TokenFile(tok.access_token, saved.refresh_token)
          /\ authWrites' = authWrites + 1
          /\ authResult' = [access_token |-> tok.access_token,
                            refresh_token |-> saved.refresh_token]
          /\ refreshOutcome' = "ok" /\ authPc' = "done"
     \/ /\ refreshOutcome' = "failed" /\ authPc' = "deviceCode"
        /\ UNCHANGED <<tokenFile, authWrites, authResult, refreshed>>
  /\ UNCHANGED <<saved, polls, authError, notAuthVars>>

\* the device-code request is answered: non-ok propagates from postForm
DeviceCodeResponse ==
  /\ authPc = "deviceCode"
  /\ \/ /\ authPc' = "pollWait" /\ UNCHANGED authError
     \/ /\ authPc' = "failed"
        /\ authError' = PostFormError(GoogleDeviceCode, <<"invalid_client">>)
  /\ UNCHANGED <<saved, refreshOutcome, refreshed, polls, authResult, authWrites, tokenFile, notAuthVars>>

\* the poll interval has elapsed and the token request is posted
PollTimer ==
  /\ authPc = "pollWait"
  /\ Len(polls) < MaxPolls
  /\ authPc' = "polling"
  /\ UNCHANGED <<saved, refreshOutcome, refreshed, polls, authResult, authError, authWrites, tokenFile, notAuthVars>>

\* the token request is answered: ok saves the token and returns; a
\* failure is caught, and the loop continues or rethrows
PollResponse ==
  /\ authPc = "polling"
  /\ \/ \E tok \in DeviceTokens :
          /\ polls' = Append(polls, [ok |-> TRUE, message |-> <<>>])
          /\ tokenFile' = tok
          /\ authWrites' = authWrites + 1
          /\ authResult' = [access_token |-> tok.access_token,
                            refresh_token |-> tok.refresh_token]
          /\ authPc' = "done"
          /\ UNCHANGED authError
     \/ \E text \in TokenErrorBodies :
          LET msg == PostFormError(GoogleToken, text) IN
          /\ polls' = Append(polls, [ok |-> FALSE, message |-> msg])
          /\ IF KeepPolling(msg)
             THEN authPc' = "pollWait" /\ UNCHANGED authError
             ELSE authPc' = "failed" /\ authError' = msg
          /\ UNCHANGED <<tokenFile, authWrites, authResult>>
  /\ UNCHANGED <<saved, refreshOutcome, refreshed, notAuthVars>>

AuthNext ==
  \/ CallEnsureAccessToken
  \/ RefreshResponse
  \/ DeviceCodeResponse
  \/ PollTimer
  \/ PollResponse

SpecAuth == AuthInit /\ [][AuthNext]_vars

\* ---------------------------------------------------------------------
\* Properties of startStream and endStream
\* ---------------------------------------------------------------------
IssuedAt(o) == {i \in 1..Len(events) : events[i].ev = "issue" /\ events[i].op = o}
IssuedAny == {i \in 1..Len(events) : events[i].ev = "issue"}
Started == op = "start" /\ step # "idle"
Ended == op = "end" /\ step # "idle"
\* the broadcast id the call is about: the caller's, else the fetched one
CurrentBroadcastId == IF opts.broadcastId # "" THEN opts.broadcastId ELSE broadcast.id
CallRank(o) == CASE o = "create" -> 1 [] o = "bind" -> 2 [] o = "transition" -> 3

\* C6: when the current broadcast is live, startStream issues no create,
\* bind or transition call and returns the current broadcast id with the
\* status live.
C6_LiveIsNoOp ==
  (Started /\ broadcast.status = "live") =>
    /\ events = <<>>
    /\ step = "done"
    /\ returned.broadcastId = CurrentBroadcastId
    /\ returned.status = "live"

\* C6 witness: startStream returned on a live, unbound broadcast.
C6_Witness ==
  /\ Started /\ broadcast.status = "live" /\ broadcast.boundStreamId = ""
  /\ step = "done" /\ returned.broadcastId = broadcast.id /\ events = <<>>

\* errors thrown by endStream's guards, before any request
EndPreconditionErrors ==
  {"Missing access token", "No active broadcast id", "Broadcast not live - cannot end"}

\* C7: with a status other than live (unknown and missing included)
\* endStream fails on a guard without any provider call; with live it
\* issues exactly one transition call, to complete.
C7_EndRequiresLive ==
  Ended =>
    IF broadcast.status # "live"
    THEN step = "failed" /\ error \in EndPreconditionErrors /\ events = <<>>
    ELSE /\ Cardinality(IssuedAny) = 1
         /\ events[1] = [ev |-> "issue", op |-> "transition", id |-> broadcast.id,
                          a |-> "complete", b |-> ""]

\* C7 witnesses: endStream refused a broadcast whose status is outside the
\* declared ones; endStream on a live broadcast got its answer.
C7_Witness ==
  /\ Ended /\ broadcast.status = "liveStarting" /\ step = "failed"
  /\ error = "Broadcast not live - cannot end"
C7_WitnessLive == Ended /\ broadcast.status = "live" /\ step = "done" /\ Len(events) = 2

\* C8: the calls of a startStream run are issued in the order create,
\* bind, transition; a call is issued only after every earlier call of the
\* run was answered ok, and nothing is issued after a failed call.
C8_CreateBindTransitionOrder ==
  Started =>
    /\ \A i, j \in IssuedAny : i < j => CallRank(events[i].op) < CallRank(events[j].op)
    /\ \A i, j \in IssuedAny :
         i < j => \E k \in 1..Len(events) :
                    i < k /\ k < j /\ events[k] = [events[i] EXCEPT !.ev = "ok"]
    /\ \A i \in 1..Len(events) : events[i].ev = "fail" => i = Len(events)

\* C8 witness: a run that created, bound and transitioned, in that order.
C8_Witness ==
  /\ Started /\ step = "done" /\ Len(events) = 6
  /\ events[1].op = "create" /\ events[3].op = "bind" /\ events[5].op = "transition"

\* C9: whenever startStream has issued the live transition for a
\* broadcast, that broadcast is bound to a stream.
C9_BoundBeforeTransition ==
  (Started /\ IssuedAt("transition") # {}) => boundTo[workingBroadcastId] # ""

\* C9 on the runs in which the caller names no broadcast: the broadcast
\* such a run transitions (the fetched one, or the one it created) is bound.
C9_OwnBroadcastBoundBeforeTransition ==
  (Started /\ opts.broadcastId = "" /\ IssuedAt("transition") # {})
    => boundTo[workingBroadcastId] # ""

\* C10: the live transition is issued only when the working broadcast's
\* status is ready, testing or created; with any other status startStream
\* issues no transition and returns that status.
C10_TransitionOnlyWhenTargetable ==
  Started =>
    /\ IssuedAt("transition") # {} => workingBroadcastStatus \in {"ready", "testing", "created"}
    /\ (step = "done" /\ workingBroadcastStatus \notin {"ready", "testing", "created"}) =>
         /\ IssuedAt("transition") = {}
         /\ returned.status = workingBroadcastStatus

\* C10 witnesses: a run on a revoked broadcast bound it and returned
\* revoked without a transition; a run whose created broadcast came back
\* without a status returned without a transition.
C10_Witness ==
  /\ Started /\ step = "done" /\ workingBroadcastStatus = "revoked"
  /\ IssuedAt("bind") # {} /\ IssuedAt("transition") = {} /\ returned.status = "revoked"
C10_WitnessCreated ==
  /\ Started /\ step = "done" /\ justCreated /\ workingBroadcastStatus = ""
  /\ IssuedAt("transition") = {}

\* C11: a startStream run that holds an access token issues a create call
\* exactly when there is no current broadcast id or the fetched status is
\* complete, at most once, and the create request carries the prior
\* broadcast's title (when it has one) and its description; with an id and
\* any other status no create call is issued.
C11_CreateIffMissingOrComplete ==
  (Started /\ accessToken # "") =>
    /\ IssuedAt("create") # {} <=> (CurrentBroadcastId = "" \/ broadcast.status = "complete")
    /\ Cardinality(IssuedAt("create")) <= 1
    /\ \A i \in IssuedAt("create") :
         /\ broadcast.title # "" => events[i].a = broadcast.title
         /\ events[i].b = broadcast.description

\* C11 witnesses: a run on a complete broadcast issued a create carrying
\* its title and description; a run on a canceled broadcast went on to
\* bind without a create.
C11_Witness ==
  /\ Started /\ broadcast.status = "complete"
  /\ broadcast.title = "T" /\ broadcast.description = "D"
  /\ IssuedAt("create") = {1} /\ events[1].a = "T" /\ events[1].b = "D"
C11_WitnessNoCreate ==
  /\ Started /\ broadcast.status = "canceled" /\ IssuedAt("create") = {}
  /\ IssuedAt("bind") # {}

\* ---------------------------------------------------------------------
\* Properties of the stream-key resolver
\* ---------------------------------------------------------------------
HasName(st) == st.streamName.def /\ st.streamName.str # <<>>
\* a stream counts as reusable when isReusable is true or absent
Reusable(st) == st.isReusable \in {"true", "absent"}
ReusableAt(list) == {i \in 1..Len(list) : Reusable(list[i])}
KeyedReusableAt(list) == {i \in 1..Len(list) : Reusable(list[i]) /\ HasName(list[i])}
FirstOf(S) == CHOOSE i \in S : \A j \in S : i <= j
Listing(p) == pc[p] \in {"insertReusableStream", "done"}

\* C4: a peekYouTubeStreamKey invocation never issues a stream insert and
\* no step of it changes the provider's streams, whatever the provider
\* holds; when no reusable stream with a key is listed it returns {}.
C4_PeekNeverCreates ==
  /\ [](\A p \in Callers :
          kind[p] = "peek" =>
            /\ inserts[p] = 0
            /\ pc[p] # "insertReusableStream"
            /\ (pc[p] = "done" /\ KeyedReusableAt(listed[p]) = {}) => result[p] = EmptyResult)
  /\ [][\A p \in Callers :
          ((kind[p] = "peek" \/ kind'[p] = "peek") /\ pc'[p] # pc[p]) => streams' = streams]_vars

\* C4 witness: a peek over a non-empty listing without a keyed reusable
\* stream (one reusable stream lacks its name) returned {} and the
\* provider still holds exactly the listed streams.
C4_Witness ==
  \E p \in Callers :
    /\ kind[p] = "peek" /\ pc[p] = "done"
    /\ Len(listed[p]) = 2 /\ KeyedReusableAt(listed[p]) = {} /\ ReusableAt(listed[p]) # {}
    /\ \E i \in 1..2 : HasName(listed[p][i])
    /\ result[p] = EmptyResult /\ streams = listed[p]

\* C5 as stated: at most one insert per getYouTubeStreamKey invocation,
\* issued only when no reusable stream is listed; when a reusable stream
\* is listed no insert is issued and that stream's key is returned.
C5_InsertOnlyWithoutReusable ==
  \A p \in Callers :
    (kind[p] = "get" /\ Listing(p)) =>
      /\ inserts[p] <= 1
      /\ inserts[p] = 1 => ReusableAt(listed[p]) = {}
      /\ (pc[p] = "done" /\ ReusableAt(listed[p]) # {}) =>
           /\ inserts[p] = 0
           /\ result[p].streamKey = listed[p][FirstOf(ReusableAt(listed[p]))].streamName

\* C5 amended: at most one insert per getYouTubeStreamKey invocation,
\* issued only when no reusable stream with a non-empty stream name is
\* listed; when one is listed no insert is issued and the key of the first
\* such stream is returned.
C5_InsertOnlyWithoutKeyedReusable ==
  \A p \in Callers :
    /\ inserts[p] <= 1
    /\ (kind[p] = "get" /\ Listing(p)) =>
         /\ inserts[p] = 1 <=> KeyedReusableAt(listed[p]) = {}
         /\ (pc[p] = "done" /\ KeyedReusableAt(listed[p]) # {}) =>
              result[p].streamKey = listed[p][FirstOf(KeyedReusableAt(listed[p]))].streamName

\* C5 witnesses: an invocation that listed a reusable stream without a
\* name created a stream; an invocation that listed a keyed stream with
\* isReusable absent behind a non-reusable one returned its key.
C5_WitnessInsert ==
  \E p \in Callers :
    /\ kind[p] = "get" /\ pc[p] = "done" /\ inserts[p] = 1
    /\ ReusableAt(listed[p]) # {} /\ Len(streams) = Len(listed[p]) + 1
C5_Witness ==
  \E p \in Callers :
    /\ kind[p] = "get" /\ pc[p] = "done" /\ inserts[p] = 0
    /\ Len(listed[p]) = 2 /\ listed[p][1].isReusable = "false" /\ HasName(listed[p][1])
    /\ listed[p][2].isReusable = "absent"
    /\ result[p].streamKey = listed[p][2].streamName /\ streams = listed[p]

\* ---------------------------------------------------------------------
\* Properties of pickMostRecentBroadcast
\* ---------------------------------------------------------------------
Range(seq) == {seq[i] : i \in 1..Len(seq)}

\* The instant a broadcast is ranked by: the first non-empty of the four
\* time fields in order of preference (0 when all four are empty).
PreferredFields(b) ==
  <<b.actualStartTime, b.scheduledStartTime, b.actualEndTime, b.publishedAt>>
NonEmptyAt(b) == {i \in 1..4 : PreferredFields(b)[i].def /\ PreferredFields(b)[i].str # <<>>}
FirstNonEmpty(b) == CHOOSE i \in NonEmptyAt(b) : \A j \in NonEmptyAt(b) : i <= j
RankInstant(b) ==
  IF NonEmptyAt(b) = {} THEN 0 ELSE PreferredFields(b)[FirstNonEmpty(b)].str[1] * MsPerSecond

\* The instant the sort revision ranks by: actualStartTime when it is
\* present, else publishedAt (0 when that one is empty).
SortRankInstant(b) ==
  LET f == IF b.actualStartTime.def THEN b.actualStartTime ELSE b.publishedAt
  IN IF f.def /\ f.str # <<>> THEN f.str[1] * MsPerSecond ELSE 0

PairwiseDistinct(list, Rank(_)) ==
  \A i, j \in 1..Len(list) : i # j => Rank(list[i]) # Rank(list[j])
Greatest(list, Rank(_)) ==
  {i \in 1..Len(list) : \A j \in 1..Len(list) : Rank(list[i]) >= Rank(list[j])}
PickCalled == newest # NotCalled
PickSortedCalled == newestSorted # NotCalled
NonEmptyInput == items.def /\ Len(items.list) > 0

C2_TieFirstInInput ==
  /\ (PickCalled /\ NonEmptyInput)
       => \E i \in Greatest(items.list, RankInstant) :
            /\ newest = items.list[i]
            /\ \A j \in Greatest(items.list, RankInstant) : i <= j
  /\ (PickSortedCalled /\ NonEmptyInput)
       => \E i \in Greatest(items.list, SortRankInstant) :
            /\ newestSorted = items.list[i]
            /\ \A j \in Greatest(items.list, SortRankInstant) : i <= j

\* C2 witness: two broadcasts tie for the greatest instant and the first
\* one was returned by both revisions.
C2_Witness ==
  /\ PickCalled /\ PickSortedCalled /\ NonEmptyInput
  /\ Cardinality(Greatest(items.list, RankInstant)) > 1
  /\ Cardinality(Greatest(items.list, SortRankInstant)) > 1
  /\ newest.id = 1 /\ newestSorted.id = 1

\* C3: the result is null for the empty list and for undefined, and a
\* member of the input list for every non-empty input.
C3_NullIffEmpty ==
  /\ PickCalled =>
       IF NonEmptyInput THEN newest \in Range(items.list) ELSE newest = NullBroadcast
  /\ PickSortedCalled =>
       IF NonEmptyInput THEN newestSorted \in Range(items.list)
       ELSE newestSorted = NullBroadcast

\* C3 witness: a call on undefined returned null.
C3_WitnessUndefined == PickCalled /\ PickSortedCalled /\ ~items.def /\ newest = NullBroadcast

\* C3 witness: a call on a list whose only broadcast has no time at all
\* returned that broadcast.
C3_Witness ==
  /\ PickCalled /\ PickSortedCalled /\ NonEmptyInput
  /\ \A b \in Range(items.list) : RankInstant(b) = 0
  /\ newest = items.list[1] /\ newestSorted = items.list[1]

\* ---------------------------------------------------------------------
\* Properties of the upsert
\* ---------------------------------------------------------------------
RequestsOf(p, method) ==
  {i \in 1..Len(requests) : requests[i].by = p /\ requests[i].method = method}
\* the caller has received its listing
Listed(p) == listing[p].def
ActiveStatuses == {"created", "ready", "testing", "live"}
ActiveListed(p) ==
  {i \in 1..Len(listing[p].list) : listing[p].list[i].status \in ActiveStatuses}
\* the instant a listed broadcast of this model is ranked by: publishedAt,
\* its only time field
PublishedInstant(b) == DateParse(b.publishedAt)
SecondsAhead == 30..300

\* C12: when the listing holds no broadcast in an active status, an upsert
\* with a non-empty title T issues exactly one insert, with title T and a
\* scheduledStartTime 30 to 300 seconds after the current time, issues no
\* update, and resolves with the broadcast the provider created.
C12_InsertWhenNoneActive ==
  \A p \in Callers :
    (Listed(p) /\ ActiveListed(p) = {} /\ Truthy(input[p].title)) =>
      /\ Cardinality(RequestsOf(p, "POST")) = 1
      /\ RequestsOf(p, "PUT") = {}
      /\ \A i \in RequestsOf(p, "POST") :
           /\ requests[i].title = input[p].title
           /\ \E s \in SecondsAhead :
                DateParse(requests[i].scheduledStartTime)
                  = requests[i].now * MsPerSecond + s * MsPerSecond
      /\ upsertPc[p] \in {"insertBroadcast", "done", "failed"}
      /\ upsertPc[p] = "done" =>
           /\ upsertResult[p].id > Len(listing[p].list)
           /\ upsertResult[p] = InfoOf(ytBroadcasts[upsertResult[p].id])
           /\ upsertResult[p].title = input[p].title

\* C12 witness: an upsert with title T over a listing of inactive
\* broadcasts only has resolved with the created broadcast.
C12_Witness ==
  /\ Listed(1) /\ Len(listing[1].list) = 2 /\ ActiveListed(1) = {}
  /\ input[1].title = Str(<<"T">>) /\ upsertPc[1] = "done"
  /\ upsertResult[1].id = 3 /\ Len(requests) = 1 /\ requests[1].answer = "ok"

\* C13: when the listing holds a broadcast in status created, ready,
\* testing or live, the upsert issues no insert and at most one update, and
\* an update it issues addresses the first listed of the most recent
\* active broadcasts; a complete, revoked or canceled one is never updated.
C13_UpdatesMostRecentActive ==
  \A p \in Callers :
    (Listed(p) /\ ActiveListed(p) # {}) =>
      /\ RequestsOf(p, "POST") = {}
      /\ Cardinality(RequestsOf(p, "PUT")) <= 1
      /\ \A r \in RequestsOf(p, "PUT") :
           \E i \in ActiveListed(p) :
             /\ requests[r].id = listing[p].list[i].id
             /\ \A j \in ActiveListed(p) :
                  /\ PublishedInstant(listing[p].list[j]) <= PublishedInstant(listing[p].list[i])
                  /\ j < i => PublishedInstant(listing[p].list[j])
                                < PublishedInstant(listing[p].list[i])

\* C13 witness: a newer complete broadcast is listed before an older live
\* one, and the update went to the live one.
C13_Witness ==
  /\ Listed(1) /\ Len(listing[1].list) = 2
  /\ listing[1].list[1].status = "complete" /\ listing[1].list[2].status = "live"
  /\ PublishedInstant(listing[1].list[1]) > PublishedInstant(listing[1].list[2])
  /\ RequestsOf(1, "PUT") = {1} /\ requests[1].id = 2 /\ requests[1].answer = "ok"

\* C14: an update request carries exactly the title and description the
\* caller supplied: a supplied field with the caller's value, a field that
\* was not supplied not at all.
C14_UpdateSendsSuppliedFields ==
  \A i \in 1..Len(requests) :
    requests[i].method = "PUT" =>
      /\ requests[i].title = input[requests[i].by].title
      /\ requests[i].description = input[requests[i].by].description

\* C14 witness: an update for a caller that supplied a description only.
C14_Witness ==
  /\ RequestsOf(1, "PUT") = {1}
  /\ input[1].title = Undefined /\ input[1].description = Str(<<"D">>)
  /\ requests[1].title = Undefined /\ requests[1].description = Str(<<"D">>)

\* ---------------------------------------------------------------------
\* Properties of the status display
\* ---------------------------------------------------------------------
\* C15: humanizeStatus yields a label for every status: Live for live,
\* Starting Soon for created, ready and testing, Ended for complete,
\* Canceled for canceled, Revoked for revoked, and for every other string
\* the string itself with the neutral color.
C15_HumanizeStatusTotal ==
  shownStatus # NotPolled =>
    /\ shownStatus = "live" => badge.label = "Live"
    /\ shownStatus \in {"created", "ready", "testing"} => badge.label = "Starting Soon"
    /\ shownStatus = "complete" => badge.label = "Ended"
    /\ shownStatus = "canceled" => badge.label = "Canceled"
    /\ shownStatus = "revoked" => badge.label = "Revoked"
    /\ shownStatus \notin LifeCycleStatuses =>
         badge = [label |-> shownStatus, color |-> "#6b7280"]

\* C15 witness: a status outside the declared ones is shown as itself.
C15_Witness ==
  shownStatus = "liveStarting" /\ badge = [label |-> "liveStarting", color |-> "#6b7280"]

\* the label the normalization is to give streams[0]
ExpectedStreamLabels(latest) ==
  IF latest.present /\ latest.streamStatus = "active" THEN {"streaming", "receiving data"}
  ELSE IF latest.present /\ latest.streamStatus = "error" THEN {"lost connection"}
  ELSE {"waiting for connection.."}

\* C16: both normalizations map active to the streaming label, error to
\* "lost connection", and every other status, a missing status and a
\* missing stream to "waiting for connection..".
C16_StreamStatusNormalized ==
  /\ hookStatus # NotPolled => hookStatus \in ExpectedStreamLabels(hookStream)
  /\ routeStatus # NotPolled => routeStatus \in ExpectedStreamLabels(routeStream)

\* C16 on the route alone: GET /api/livestream/status answers with the
\* expected label for every streams[0].
C16_RouteStatusNormalized ==
  routeStatus # NotPolled => routeStatus \in ExpectedStreamLabels(routeStream)

\* C16 witness: the route answered for a stream in status ready.
C16_Witness ==
  /\ routeStream = [present |-> TRUE, streamStatus |-> "ready"]
  /\ routeStatus = "waiting for connection.."

\* ---------------------------------------------------------------------
\* Properties of the session-backed routes
\* ---------------------------------------------------------------------
Mutating(i) == svcCalls[i].method \in {"POST", "PUT"}
\* an error message that carries the provider's text, bare or prefixed
ErrorPrefixes == {"", "Update failed: ", "Insert broadcast failed: ", "create-broadcast failed: "}
Carries(message, text) == \E prefix \in ErrorPrefixes : message = prefix \o text

\* C17: a request to any of the six session-backed handlers for which
\* getAccessToken yields no token is answered 401 Unauthorized and issues
\* no provider call.
C17_NoTokenUnauthorized ==
  (req.handler \in Handlers /\ req.token = "") =>
    /\ routePc = "responded"
    /\ response = [status |-> 401, error |-> "Unauthorized"]
    /\ svcCalls = <<>>

\* C17 witnesses: the POST handler and the health handler refused a
\* request without a token.
C17_Witness ==
  /\ req.handler = "POST /api/broadcast/fields" /\ req.token = "" /\ req.body.id = "b1"
  /\ response.status = 401
C17_WitnessHealth ==
  req.handler = "GET /livestream/health" /\ req.token = "" /\ response.status = 401

\* C18: when the provider answers a broadcast create or update with a
\* non-success response, the request fails with an error that carries the
\* provider's message, and the call is not issued again.
C18_UpstreamErrorCarriesMessage ==
  \A i \in 1..Len(svcCalls) :
    (Mutating(i) /\ svcCalls[i].answer = "fail") =>
      /\ routePc = "responded" /\ response.status = 500
      /\ Carries(response.error, svcCalls[i].text)
      /\ \A j \in 1..Len(svcCalls) : Mutating(j) => j = i

\* C18 without the message: a failed create or update ends the request
\* with an error and no create or update is issued twice.
C18_FailsWithoutRetry ==
  /\ Cardinality({i \in 1..Len(svcCalls) : Mutating(i)}) <= 1
  /\ \A i \in 1..Len(svcCalls) :
       (Mutating(i) /\ svcCalls[i].answer = "fail") =>
         routePc = "responded" /\ response.status = 500 /\ i = Len(svcCalls)

\* C18 for the upsert: a failed insert or update makes the upsert fail
\* with the provider's text in its error, and the caller issues no
\* further request.
C18_UpsertErrorCarriesText ==
  \A i \in 1..Len(requests) :
    requests[i].answer = "fail" =>
      /\ upsertPc[requests[i].by] = "failed"
      /\ upsertError[requests[i].by].text = requests[i].text
      /\ Cardinality({j \in 1..Len(requests) : requests[j].by = requests[i].by}) = 1

\* C18 witness: the PUT of POST /api/broadcast/fields was answered
\* non-ok and the request failed.
C18_Witness ==
  /\ Len(svcCalls) = 2 /\ svcCalls[2].method = "PUT" /\ svcCalls[2].answer = "fail"
  /\ svcCalls[2].text = "forbidden" /\ response.status = 500

\* ---------------------------------------------------------------------
\* Properties of the OAuth callback and of ensureAccessToken
\* ---------------------------------------------------------------------
\* the callback request carries a code and a non-empty state equal to its
\* oauth_state cookie
CallbackValid == cb.code # "" /\ cb.state # "" /\ cb.state = cb.cookie

C19_WitnessExchanged ==
  /\ cb.n # 0 /\ cb.fromBrowser /\ cb.state \in issued
  /\ oauthWrites = 1 /\ tokenFile = CodeGrantToken /\ oauthResponse.status = 302

\* the failure message contains authorization_pending or slow_down
Retryable(message) ==
  \E i \in 1..Len(message) : message[i] \in {"authorization_pending", "slow_down"}
OkPolls == {i \in 1..Len(polls) : polls[i].ok}

\* C20: in the poll loop a failure whose message contains
\* authorization_pending or slow_down is followed by another poll, any
\* other failure ends ensureAccessToken with that error, a success ends
\* it with the tokens; the token file is written once per successful
\* token response and never otherwise.
C20_PollLoop ==
  /\ \A i \in 1..Len(polls) :
       i < Len(polls) => ~polls[i].ok /\ Retryable(polls[i].message)
  /\ Len(polls) > 0 =>
       LET last == polls[Len(polls)] IN
       /\ (~last.ok /\ Retryable(last.message)) => authPc \in {"pollWait", "polling"}
       /\ (~last.ok /\ ~Retryable(last.message)) =>
            authPc = "failed" /\ authError = last.message
       /\ last.ok => authPc = "done" /\ authResult.access_token = tokenFile.access_token
  /\ authWrites = Cardinality(OkPolls) + (IF refreshOutcome = "ok" THEN 1 ELSE 0)
  /\ authWrites = 0 => tokenFile = (IF authPc = "idle" THEN tokenFile ELSE saved)

\* C20 witnesses: a slow_down and an authorization_pending answer were
\* followed by a third poll that succeeded; an access_denied answer ended
\* the loop.
C20_Witness ==
  /\ Len(polls) = 3 /\ Retryable(polls[1].message) /\ Retryable(polls[2].message)
  /\ polls[1].message # polls[2].message /\ polls[3].ok
  /\ authPc = "done" /\ authWrites = 1
C20_WitnessFatal ==
  /\ Len(polls) = 2 /\ ~polls[2].ok /\ ~Retryable(polls[2].message)
  /\ authPc = "failed" /\ authWrites = 0

\* ---------------------------------------------------------------------
\* Properties of ensureAccessToken
\* ---------------------------------------------------------------------
\* no token file was found, and the last poll was answered
\* authorization_pending: the user has not yet authorized the device
NoStoredCredential == authPc # "idle" /\ ~saved.exists
AuthorizationPending ==
  /\ Len(polls) > 0
  /\ ~polls[Len(polls)].ok
  /\ Includes(polls[Len(polls)].message, "authorization_pending")

\* C21: when no stored credential exists and interactive authorization
\* has not completed, ensureAccessToken has failed with AuthRequired.
C21_FailsWithAuthRequired ==
  (NoStoredCredential /\ AuthorizationPending) =>
    authPc = "failed" /\ Includes(authError, "AuthRequired")

\* what ensureAccessToken does in that case: it stays in the poll loop,
\* and no error it throws is AuthRequired
C21_PendingKeepsPolling ==
  /\ (NoStoredCredential /\ AuthorizationPending) => authPc \in {"pollWait", "polling"}
  /\ ~Includes(authError, "AuthRequired")

\* ---------------------------------------------------------------------
\* Overlapping invocations: two callers of getYouTubeStreamKey /
\* peekYouTubeStreamKey, or two callers of the upsert.  Nothing in the
\* module serializes them: each await is a point where the other
\* invocation may run.  A run exercises one of the two functions; the
\* provider starts one short of the bound, which leaves room for the
\* creates of both callers.
\* ---------------------------------------------------------------------
RaceInit ==
  /\ PickIdle
  /\ \/ streams \in StreamLists(MaxStreams - 1) /\ ytBroadcasts = <<>>
     \/ streams = <<>> /\ ytBroadcasts \in BroadcastLists(MaxItems - 1)
  /\ enabled = Callers
  /\ KeyIdle
  /\ StartIdle
  /\ UpsertIdle
  /\ LabelIdle
  /\ RouteIdle
  /\ tokenFile = NoTokenFile /\ OAuthIdle /\ AuthIdle

RaceNext ==
  \E p \in Callers :
    \/ UpsertIdle /\ CallGetYouTubeStreamKey(p)
    \/ UpsertIdle /\ CallPeekYouTubeStreamKey(p)
    \/ UpsertIdle /\ EnsureAccessToken(p)
    \/ UpsertIdle /\ ListStreamsFails(p)
    \/ UpsertIdle /\ ListStreams(p)
    \/ UpsertIdle /\ InsertReusableStream(p)
    \/ UpsertIdle /\ Settle(p)
    \/ KeyIdle /\ \E in \in UpsertInputs : CallUpsert(p, in)
    \/ KeyIdle /\ UpsertEnsureAccessToken(p)
    \/ KeyIdle /\ ListBroadcastsFails(p)
    \/ KeyIdle /\ ListBroadcasts(p)
    \/ KeyIdle /\ UpdateEnsureAccessToken(p)
    \/ KeyIdle /\ UpdateTitleDescriptionResponse(p)
    \/ KeyIdle /\ GetBroadcastById(p)
    \/ KeyIdle /\ InsertBroadcastResponse(p)

SpecRace == RaceInit /\ [][RaceNext]_vars

\* both callers hold the same listing: both read before either wrote
SameStreamsRead == listed[1] = listed[2]
SameBroadcastsRead == listing[1] = listing[2]
OkInsertsOf(p) ==
  {i \in 1..Len(requests) :
     requests[i].by = p /\ requests[i].method = "POST" /\ requests[i].answer = "ok"}

\* C22: overlapping invocations act on their stale reads.  A
\* getYouTubeStreamKey that listed no reusable stream with a key issues
\* its insert whatever the provider holds by then, and an upsert that
\* listed no active broadcast issues its insert; when two overlapping
\* invocations read the same such listing and both complete, two streams
\* (broadcasts) more than listed exist and the two callers hold
\* different ones.
C22_OverlapActsOnStaleReads ==
  /\ \A p \in Callers :
       (kind[p] = "get" /\ Listing(p) /\ KeyedReusableAt(listed[p]) = {}) => inserts[p] = 1
  /\ ((\A p \in Callers : kind[p] = "get" /\ pc[p] = "done" /\ inserts[p] = 1)
        /\ SameStreamsRead) =>
       /\ Len(streams) = Len(listed[1]) + 2
       /\ result[1].streamKey # result[2].streamKey
  /\ \A p \in Callers :
       (upsertPc[p] = "done" /\ listing[p].def /\ ActiveOf(listing[p].list) = <<>>) =>
         Cardinality(OkInsertsOf(p)) = 1
  /\ ((\A p \in Callers :
         upsertPc[p] = "done" /\ listing[p].def /\ ActiveOf(listing[p].list) = <<>>)
        /\ SameBroadcastsRead) =>
       /\ Len(ytBroadcasts) = Len(listing[1].list) + 2
       /\ upsertResult[1].id # upsertResult[2].id

\* C22 witnesses: two overlapping getYouTubeStreamKey calls that both
\* listed the same streams, none reusable with a key, have each created
\* a stream; two overlapping upserts that both listed no active
\* broadcast have each created a broadcast.
C22_Witness ==
  /\ \A p \in Callers : kind[p] = "get" /\ pc[p] = "done" /\ inserts[p] = 1
  /\ SameStreamsRead /\ calls = 2
  /\ Len(streams) = Len(listed[1]) + 2
  /\ \A p \in Callers : \E i \in 1..Len(streams) :
       i > Len(listed[1]) /\ streams[i].streamName = result[p].streamKey
C22_WitnessUpsert ==
  /\ \A p \in Callers : upsertPc[p] = "done" /\ Cardinality(OkInsertsOf(p)) = 1
  /\ SameBroadcastsRead /\ listing[1].def
  /\ Len(ytBroadcasts) = Len(listing[1].list) + 2
  /\ upsertResult[1].id # upsertResult[2].id

\* ---------------------------------------------------------------------
\* Properties of the update and insert requests
\* ---------------------------------------------------------------------
UpdatesSent == {i \in 1..Len(requests) : requests[i].method = "PUT"}

\* C23: an update of an existing broadcast carries a scheduledStartTime,
\* five minutes after the current time, if and only if the broadcast had
\* a scheduled start time; for a broadcast without one none is sent.
C23_ScheduledIffHadOne ==
  \A i \in UpdatesSent :
    LET request == requests[i]
        had == Truthy(picked[request.by].scheduledStartTime) IN
    /\ request.scheduledStartTime.def <=> had
    /\ had => request.scheduledStartTime = ScheduledStartTime(request.now)

\* what updateTitleDescription does: every update carries the current
\* time plus five minutes
C23_UpdateAlwaysSchedules ==
  \A i \in UpdatesSent :
    requests[i].scheduledStartTime = ScheduledStartTime(requests[i].now)

\* the session-backed service sends it only for a broadcast that has one
C23_ServiceScheduledIffHadOne ==
  \A i \in 1..Len(svcCalls) :
    svcCalls[i].method = "PUT" =>
      /\ svcCalls[i].scheduledStartTime.def <=> Truthy(currentBroadcast.scheduledStartTime)
      /\ svcCalls[i].scheduledStartTime.def =>
           \E now \in Times : svcCalls[i].scheduledStartTime = ScheduledStartTime(now)

InsertsSent == {i \in 1..Len(requests) : requests[i].method = "POST"}

\* C24: the insert request of a newly created broadcast carries the
\* caller's title when that is non-empty, and a non-empty generated
\* default title when the caller supplied none (absent or empty).
C24_InsertCarriesTitleOrDefault ==
  \A i \in InsertsSent :
    LET supplied == input[requests[i].by].title IN
    /\ Truthy(supplied) => requests[i].title = supplied
    /\ ~Truthy(supplied) => Truthy(requests[i].title)

\* what insertBroadcast does: without a title the snippet has no title
C24_InsertOmitsMissingTitle ==
  \A i \in InsertsSent :
    LET supplied == input[requests[i].by].title IN
    requests[i].title = (IF Truthy(supplied) THEN supplied ELSE Undefined)

\* the hook's createBroadcast falls back to `New Stream ...` on an absent
\* or empty title
C24_HookInsertTitle ==
  \A i \in IssuedAt("create") :
    /\ broadcast.title # "" => events[i].a = broadcast.title
    /\ broadcast.title = "" => events[i].a = DefaultTitle /\ DefaultTitle # ""

\* the session-backed service falls back to "my livestream" on an absent
\* title only: an empty title is sent as it is
C24_ServiceInsertTitle ==
  \A i \in 1..Len(svcCalls) :
    svcCalls[i].method = "POST" =>
      svcCalls[i].title = (IF req.body.title.def THEN req.body.title ELSE DefaultServiceTitle)

\* ---------------------------------------------------------------------
\* Properties of the stream selection
\* ---------------------------------------------------------------------
\* rtmpsIngestionAddress when present, otherwise ingestionAddress
IngestOf(st) ==
  IF st.rtmpsIngestionAddress.def THEN st.rtmpsIngestionAddress ELSE st.ingestionAddress
Resolved(p) == kind[p] \in {"get", "peek"} /\ pc[p] = "done"

\* C25 as stated: both functions return the stream name of the first
\* listed stream whose isReusable is true or absent as the key, and its
\* rtmpsIngestionAddress, or else its ingestionAddress, as ingest URL.
C25_SelectsFirstReusable ==
  \A p \in Callers :
    (Resolved(p) /\ ReusableAt(listed[p]) # {}) =>
      LET st == listed[p][FirstOf(ReusableAt(listed[p]))] IN
      /\ result[p].streamKey = st.streamName
      /\ result[p].ingestUrl = IngestOf(st)

\* C25 amended: both functions return the stream name of the first listed
\* stream that has a non-empty stream name and whose isReusable is true
\* or absent, and its rtmpsIngestionAddress, or else its
\* ingestionAddress, as ingest URL; streams without a stream name and
\* streams whose isReusable is false are skipped.
C25_SelectsFirstKeyedReusable ==
  \A p \in Callers :
    (Resolved(p) /\ KeyedReusableAt(listed[p]) # {}) =>
      LET st == listed[p][FirstOf(KeyedReusableAt(listed[p]))] IN
      /\ result[p].streamKey = st.streamName
      /\ result[p].ingestUrl = IngestOf(st)

\* C25 witnesses: a peek skipped a keyed stream with isReusable false and
\* returned the second stream's key with its plain ingestion address,
\* the rtmps one being absent; a call returned the rtmps address of a
\* stream that has both.
C25_Witness ==
  \E p \in Callers :
    /\ kind[p] = "peek" /\ pc[p] = "done" /\ Len(listed[p]) = 2
    /\ listed[p][1].isReusable = "false" /\ HasName(listed[p][1])
    /\ Reusable(listed[p][2]) /\ HasName(listed[p][2])
    /\ ~listed[p][2].rtmpsIngestionAddress.def /\ listed[p][2].ingestionAddress.def
    /\ result[p].streamKey = listed[p][2].streamName
    /\ result[p].ingestUrl = listed[p][2].ingestionAddress
C25_WitnessRtmps ==
  \E p \in Callers :
    /\ Resolved(p) /\ Len(listed[p]) >= 1
    /\ Reusable(listed[p][1]) /\ HasName(listed[p][1])
    /\ listed[p][1].rtmpsIngestionAddress.def /\ listed[p][1].ingestionAddress.def
    /\ result[p].ingestUrl = listed[p][1].rtmpsIngestionAddress
    /\ result[p].ingestUrl # listed[p][1].ingestionAddress

\* ---------------------------------------------------------------------
\* Properties of a sequence of stream-key invocations, one after the other
\* ---------------------------------------------------------------------
Settled == 1..Len(keyLog)
InsertCalls == {i \in Settled : keyLog[i].inserts > 0}
Returned(i) == keyLog[i].outcome = "done"
SuccessfulGet(i) == keyLog[i].kind = "get" /\ Returned(i)
SameKeyAfterGet ==
  \A i, j \in Settled :
    (i < j /\ SuccessfulGet(i) /\ Returned(j)) => keyLog[j].result.streamKey = keyLog[i].result.streamKey

\* C26 as stated: over a sequence of non-overlapping invocations at most
\* one stream-insert call is issued, and every invocation after the first
\* successful getYouTubeStreamKey returns the same stream key.
C26_AtMostOneInsertCall ==
  /\ Cardinality(InsertCalls) <= 1
  /\ SameKeyAfterGet

\* C26 amended: over a sequence of non-overlapping invocations at most
\* one stream-insert call succeeds, an insert call is issued again only
\* after every earlier one failed, and every invocation that returns
\* after the first successful getYouTubeStreamKey returns the same
\* stream key.
C26_AtMostOneInsertSucceeds ==
  /\ Cardinality({i \in InsertCalls : Returned(i)}) <= 1
  /\ \A i, j \in InsertCalls : i < j => ~Returned(i)
  /\ \A i \in Settled : keyLog[i].inserts <= 1
  /\ SameKeyAfterGet

\* C26 witnesses: a getYouTubeStreamKey that created a stream was
\* followed by a peek and a getYouTubeStreamKey that returned the created
\* key without an insert; a failed insert was followed by a second one.
C26_Witness ==
  /\ Len(keyLog) = 3
  /\ SuccessfulGet(1) /\ keyLog[1].inserts = 1 /\ Truthy(keyLog[1].result.streamKey)
  /\ keyLog[2].kind = "peek" /\ Returned(2) /\ keyLog[2].inserts = 0
  /\ SuccessfulGet(3) /\ keyLog[3].inserts = 0
  /\ keyLog[2].result.streamKey = keyLog[1].result.streamKey
  /\ keyLog[3].result.streamKey = keyLog[1].result.streamKey
  /\ Len(streams) = MaxStreams + 1
C26_WitnessRetry ==
  /\ Len(keyLog) = 2 /\ InsertCalls = {1, 2} /\ ~Returned(1) /\ SuccessfulGet(2)

\* the settled invocations that received a listing with a reusable stream
\* that has a stream name
ListedKeyedReusable(i) == KeyedReusableAt(keyLog[i].listed) # {}

AnsweredOk(o, id) ==
  \E i \in 1..Len(events) : events[i].ev = "ok" /\ events[i].op = o /\ events[i].id = id
\* the status the run holds for the returned broadcast: the one the
\* provider returned for its transition, the one of the create answer,
\* or the one last fetched for it
StatusBelongsToReturned ==
  \/ AnsweredOk("transition", returned.broadcastId)
  \/ /\ returned.broadcastId = CreatedBroadcastId /\ justCreated
     /\ returned.status = workingBroadcastStatus
  \/ /\ returned.broadcastId = broadcast.id
     /\ returned.status = broadcast.status

\* C28: in every result of startStream the returned status is the
\* lifecycle status of the broadcast named by the returned broadcastId,
\* as last read or as returned by the provider during the run, also when
\* opts.broadcastId differs from the fetched broadcast.
C28_StatusOfReturnedBroadcast ==
  (Started /\ step = "done") => StatusBelongsToReturned

\* the same on the runs that name no broadcast or the fetched one
C28_StatusOfOwnBroadcast ==
  (Started /\ step = "done" /\ opts.broadcastId \in {"", broadcast.id}) =>
    StatusBelongsToReturned

\* ---------------------------------------------------------------------
\* Properties of the refresh step
\* ---------------------------------------------------------------------
\* C29: after ensureAccessToken succeeded through the refresh grant the
\* token file holds the new access token with the previously saved
\* refresh_token, whatever refresh_token the answer carries, and the
\* returned refresh_token is the saved one; after a failed refresh the
\* token file is as it was loaded until the device flow writes it.
C29_RefreshKeepsSavedRefreshToken ==
  /\ refreshOutcome = "ok" =>
       /\ authPc = "done" /\ saved.refresh_token # ""
       /\ tokenFile = TokenFile(refreshed.access_token, saved.refresh_token)
       /\ authResult = [access_token |-> refreshed.access_token,
                        refresh_token |-> saved.refresh_token]
       /\ authWrites = 1
  /\ (refreshOutcome = "failed" /\ OkPolls = {}) => tokenFile = saved /\ authWrites = 0

\* C29 witnesses: the answer carried another refresh token, and the file
\* holds the new access token with the saved refresh token; a refresh
\* failed and the file is the loaded one while the device flow polls.
C29_Witness ==
  /\ refreshOutcome = "ok" /\ refreshed.refresh_token # ""
  /\ refreshed.refresh_token # saved.refresh_token
  /\ refreshed.access_token # saved.access_token
  /\ tokenFile.access_token = refreshed.access_token
  /\ tokenFile.refresh_token = saved.refresh_token
  /\ authResult.refresh_token = saved.refresh_token
C29_WitnessFailed ==
  /\ refreshOutcome = "failed" /\ authPc = "pollWait" /\ Len(polls) = 1
  /\ tokenFile = saved /\ saved.refresh_token # ""

\* ---------------------------------------------------------------------
\* Properties of Broadcast.updateBroadcastTitleDescription
\* ---------------------------------------------------------------------
UpdateCallServed == req.handler = "POST /api/broadcast/fields" /\ Authorized(req.token)
MutatingCalls == {i \in 1..Len(svcCalls) : Mutating(i)}
\* no id was given, or fromID resolved the given id to no broadcast
NoBroadcastToUpdate == req.body.id = "" \/ ~currentBroadcast.def

\* C30: a call of updateBroadcastTitleDescription that completes
\* successfully has issued exactly one mutating provider call: an insert
\* when no id is given or the id resolves to no broadcast, otherwise a
\* PUT on the given id; no call issues both, and none inserts when the id
\* resolves to a broadcast.
C30_OneMutatingCall ==
  UpdateCallServed =>
    /\ Cardinality(MutatingCalls) <= 1
    /\ \A i \in MutatingCalls :
         IF NoBroadcastToUpdate
         THEN svcCalls[i].method = "POST"
         ELSE svcCalls[i].method = "PUT" /\ svcCalls[i].id = req.body.id
    /\ (routePc = "responded" /\ response.status = 200) =>
         /\ Cardinality(MutatingCalls) = 1
         /\ \A i \in MutatingCalls : svcCalls[i].answer = "ok" /\ i = Len(svcCalls)

\* C30 witnesses: an id that resolved to a broadcast led to one PUT on
\* it; an id that resolved to none led to one insert.
C30_Witness ==
  /\ UpdateCallServed /\ routePc = "responded" /\ response.status = 200
  /\ req.body.id = "b1" /\ currentBroadcast.def
  /\ Len(svcCalls) = 2 /\ svcCalls[1].call = "fromID"
  /\ svcCalls[2].method = "PUT" /\ svcCalls[2].id = "b1" /\ svcCalls[2].answer = "ok"
C30_WitnessInsert ==
  /\ UpdateCallServed /\ routePc = "responded" /\ response.status = 200
  /\ req.body.id = "b1" /\ ~currentBroadcast.def
  /\ Len(svcCalls) = 2 /\ svcCalls[1].call = "fromID" /\ svcCalls[1].answer = "ok"
  /\ svcCalls[2].method = "POST" /\ svcCalls[2].answer = "ok"

====
